---- MODULE Spec2Model ----
(***************************************************************************)
(* A model of the gioppler instrumentation library:                        *)
(*   - histogram::Histogram and histogram::Bucket   (histogram.hpp)        *)
(*   - sink::SinkManager and its worker tasks       (sink.hpp)             *)
(*   - contract::argument/expect/confirm, Invariant, Ensure (contract.hpp) *)
(*   - Program, Thread, Function                    (gioppler.hpp)         *)
(*   - LinuxEvent, LinuxEvents and LinuxEventsData  (linux counters)       *)
(*   - Record, sink::Json and sink::Csv             (record.hpp, sink.hpp) *)
(* Each component has its own specifications (SpecHist, SpecHistPair,      *)
(* SpecQuartiles, SpecSink, SpecSinkFair, SpecContract, SpecModes,         *)
(* SpecProfile, SpecEvent, SpecEvents, SpecEventsData, SpecJson, SpecCsv); *)
(* the variables of the other components keep their initial values under   *)
(* them.                                                                   *)
(***************************************************************************)
EXTENDS Integers, Sequences, FiniteSets, TLC

VARIABLES
  \* ---- histogram::Histogram
  buckets,        \* _buckets: sequence of Bucket records [min, span, count]
  observations,   \* _observations
  compacted,      \* _compacted
  added,          \* history: number of add_observation calls made
  hist_alive,     \* FALSE once the process was terminated inside the histogram
  hist_log,       \* history: the last operation, its result, the compactions
  quiet,          \* a second Histogram given the same observations and never
                  \* read, with the lowest and highest observation so far
  quartiles,      \* an observation count and the quartile ranks computed for it
  \* ---- sink::SinkManager
  sinks,          \* _sinks: the vector of registered sinks (sink ids)
  sinks_capacity, \* capacity of the _sinks vector
  workers,        \* _workers: the list of futures (task ids)
  tasks,          \* the async tasks ever launched: id -> [ref, record, state]
  mutex,          \* _mutex: "free" or its owner
  once_flag,      \* _create_sinks_once_flag
  spc,            \* where each client thread is inside SinkManager
  sarg,           \* the record a client thread is submitting
  manager,        \* g_sink_manager: "alive", "destroying", "destroyed", "crashed"
  written,        \* history: output of each sink, the sequence of records written
  submitted,      \* history: records handed to write_record, in call order
  awaited,        \* history: futures wait_workers has waited for
  sexc,           \* the exception write_record left a client thread with
  late_add,       \* history: add_sink ran after a write_record call
  unlocked,       \* history: code that touched _sinks or _workers without _mutex
  submitter,      \* history: the thread that made each write_record call
  \* ---- contract (one application thread, t1)
  cpc,            \* "run", or the contract operation waiting in write_record
  cctx,           \* the operation that is waiting: kind, location, ...
  guards,         \* the live Invariant/Ensure objects, innermost last
  uncaught,       \* std::uncaught_exceptions()
  propagating,    \* the exception in flight: "none" or its type
  terminated,     \* std::terminate was called
  outcomes        \* history: how each failed contract check ended

hist_vars == <<buckets, observations, compacted, added, hist_alive, hist_log,
               quiet, quartiles>>
sink_vars == <<sinks, sinks_capacity, workers, tasks, mutex, once_flag, spc,
               sarg, manager, written, submitted, awaited, sexc, late_add,
               unlocked, submitter>>
contract_vars == <<cpc, cctx, guards, uncaught, propagating, terminated, outcomes>>
\* gioppler.hpp: Program, Thread and Function<build_mode>
VARIABLES
  build_mode,         \* g_build_mode: "off" or "profile"
  once_flag_create,   \* Program::_once_flag_create has been used
  once_flag_destroy,  \* Program::_once_flag_destroy has been used
  p_program,          \* Program::_p_program is not null
  p_thread,           \* Thread::_p_thread of each thread: its id, 0 = nullptr
  threads_created,    \* Thread::_threads_created
  threads_active,     \* Thread::_threads_active
  functions,          \* Function::_functions of each thread
  profile_map,        \* Function::_profile_map
  ppc,                \* where each thread is inside ~Function
  observed,           \* the _threads_active each thread read in all_threads_done
  emissions,          \* history: the calls of write_profile_map
  scopes,             \* the Function objects alive on each thread's call stack
  clock,              \* the counter the scopes would be measured with
  expected,           \* per key, what the completed scopes amount to
  entries             \* history: number of Function objects constructed

profile_vars ==
  <<build_mode, once_flag_create, once_flag_destroy, p_program, p_thread,
    threads_created, threads_active, functions, profile_map, ppc, observed,
    emissions, scopes, clock, expected, entries>>

\* linux/counter.hpp: one LinuxEvent, and one LinuxEventsData accumulator
VARIABLES
  process,     \* "running", or "exited" once std::exit was called
  event,       \* the LinuxEvent: "none", "open", "enabled", "disabled", "closed"
  event_read,  \* history: the last read_event, what the kernel gave and the result
  data,        \* a LinuxEventsData object
  last_op,     \* history: the last operator applied to data, with its operands
  metrics,     \* history: the derived metrics last computed from data
  data_ops     \* history: number of operators applied to data

counter_vars ==
  <<process, event, event_read, data, last_op, metrics, data_ops>>

\* record.hpp and sink.hpp: one Record and what sink::Json writes for it
VARIABLES
  rec_fields,  \* history: the fields inserted into the Record, in insertion order
  json_state,  \* "building" the Record, or "written" once Json::write_record ran
  json_order,  \* the order in which write_record iterated over the Record
  json_text,   \* the characters write_record wrote to the stream
  csv,         \* sink::Csv: _fields, _separator, _string_quote_char
  csv_text     \* the characters Csv::write_record wrote to the stream

json_vars == <<rec_fields, json_state, json_order, json_text, csv, csv_text>>

\* linux/counter.hpp: one LinuxEvents object and the kernel's descriptors
VARIABLES
  ev_pc,        \* "open_events", "ready", or "destroyed"
  ev_members,   \* the LinuxEvent members: [num_events, fd1]
  ev_opened,    \* the members open_events has assigned
  kernel_fds,   \* the file descriptors that are open in the kernel
  handles,      \* history: per perf_event_open that succeeded, [fd, closes]
  bad_calls     \* history: the calls issued on a descriptor that was not open

events_vars == <<ev_pc, ev_members, ev_opened, kernel_fds, handles, bad_calls>>

vars == <<hist_vars, sink_vars, contract_vars, profile_vars, counter_vars,
          json_vars, events_vars>>

Min(a, b) == IF a <= b THEN a ELSE b
Max(a, b) == IF a >= b THEN a ELSE b
Last(s) == s[Len(s)]
Front(s) == SubSeq(s, 1, Len(s) - 1)

RECURSIVE Pow2(_)
Pow2(n) == IF n = 0 THEN 1 ELSE 2 * Pow2(n - 1)

RECURSIVE SumCounts(_)
SumCounts(bs) == IF bs = <<>> THEN 0 ELSE Head(bs).count + SumCounts(Tail(bs))

(***************************************************************************)
(* histogram.hpp                                                           *)
(*                                                                         *)
(* The source has max_buckets = 256 and a 24-bit Bucket::_count.  The      *)
(* model keeps the algorithm and scales these two sizes down (max_buckets  *)
(* and count_bits below) so that the cases that depend on them - a full    *)
(* vector, a count that no longer fits - lie within reach of exhaustive    *)
(* exploration.  The asserts of the source are compiled out (NDEBUG); the  *)
(* contract::Invariant guard of Bucket::operator+= is not.  The 40-bit     *)
(* span, the 32-bit rank_t and the 64-bit observation_t are not reduced:   *)
(* the observations of the model are far below those widths.               *)
(***************************************************************************)
max_buckets == 3      \* histogram.hpp:379 has 256
count_bits == 3       \* histogram.hpp:134 has 24

MaxObservation == 6   \* observations are drawn from 1..MaxObservation
MaxAdds == 9          \* add_observation calls explored

Observations == 1..MaxObservation

Bucket(observation) == [min |-> observation, span |-> 0, count |-> 1]

get_min(b) == b.min
get_max(b) == b.min + b.span
get_count(b) == b.count

\* An overlap test that lets two buckets touch at one value.
is_overlapping_strictly(a, b) == get_min(a) < get_max(b) /\ get_max(a) > get_min(b)

is_overlapping(a, b) == get_min(a) <= get_max(b) /\ get_max(a) >= get_min(b)

\* Bucket::operator+= : the fields after the merge; _count is a bit-field
\* and keeps only its low count_bits bits.
BucketPlusEq(l, r) ==
  LET mn == Min(get_min(l), get_min(r))
      mx == Max(get_max(l), get_max(r))
  IN [min |-> mn,
      span |-> mx - mn,
      count |-> (l.count + r.count) % Pow2(count_bits)]

\* Bucket::invariant
BucketInvariant(b) == b.count > 0

round_div(dividend, divisor) == (dividend + (divisor \div 2)) \div divisor

\* Histogram::invariant
HistogramInvariant(bs, n) == SumCounts(bs) = n /\ Len(bs) <= max_buckets

\* std::ranges::sort by get_min is not a stable sort: any ordering of the
\* buckets that is ascending in min can come out of it.
SortedOrders(bs) ==
  LET n == Len(bs)
      perms == {p \in [1..n -> 1..n] : \A i, j \in 1..n : i # j => p[i] # p[j]}
  IN {[i \in 1..n |-> bs[p[i]]] : p \in
        {q \in perms : \A i \in 1..(n - 1) : bs[q[i]].min <= bs[q[i + 1]].min}}

\* The sweep of compact_buckets.  done is the part of the vector before
\* bucket_it (its last element is *p_last_bucket), rest the part from
\* bucket_it on.  The result is the vector after the loop, and ok = FALSE
\* when a merge left a bucket with count 0: the Invariant guard of
\* Bucket::operator+= then throws out of its destructor and the process is
\* terminated.
RECURSIVE Sweep(_, _, _)
Sweep(done, rest, target) ==
  IF rest = <<>> THEN [bs |-> done, ok |-> TRUE]
  ELSE LET b == Head(rest) IN
    IF done # <<>> /\ (get_count(Last(done)) < target \/ is_overlapping(b, Last(done)))
    THEN LET m == BucketPlusEq(Last(done), b) IN
         IF BucketInvariant(m)
         THEN Sweep(Append(Front(done), m), Tail(rest), target)
         ELSE [bs |-> Append(Front(done), m) \o Tail(rest), ok |-> FALSE]
    ELSE Sweep(Append(done, b), Tail(rest), target)

target_bucket_size(n) == 1 + round_div(n, max_buckets)

\* compact_buckets without its _compacted test and with a target size taken
\* from the number of buckets at hand instead of max_buckets
CompactResultsByLen(bs, n, is_compacted) ==
  {Sweep(<<>>, sorted, 1 + round_div(n, Max(1, Len(bs)))) : sorted \in SortedOrders(bs)}

\* compact_buckets: the possible results [bs, ok] for the vector bs holding
\* n observations.
CompactResults(bs, n, is_compacted) ==
  IF is_compacted THEN {[bs |-> bs, ok |-> TRUE]}
  ELSE {Sweep(<<>>, sorted, target_bucket_size(n)) : sorted \in SortedOrders(bs)}

\* Nothing done yet.  compactions counts the compact_buckets calls made
\* since the last bucket was added, after_first is what the first of them
\* left.
NoLog ==
  [op |-> "none", arg |-> 0,
   result |-> [defined |-> TRUE, value |-> 0, low |-> FALSE, high |-> FALSE,
               text |-> <<>>],
   compactions |-> 0, after_first |-> <<>>]

\* Histogram::Histogram
HistogramConstructed ==
  /\ hist_log = NoLog
  /\ buckets = <<>>
  /\ observations = 0
  /\ compacted = TRUE
  /\ added = 0
  /\ hist_alive = TRUE

\* The second Histogram as constructed; it follows the first one only when
\* tracked is set.
NoQuiet ==
  [tracked |-> FALSE, buckets |-> <<>>, compacted |-> TRUE, alive |-> TRUE,
   lowest |-> 0, highest |-> 0]

\* No observation count taken yet.
NoQuartiles == [n |-> 0, done |-> FALSE, q1 |-> 0, q2 |-> 0, q3 |-> 0]

HistInit == HistogramConstructed /\ quiet = NoQuiet /\ quartiles = NoQuartiles

\* add_observation on the second Histogram, which holds n observations
\* after it: the possible outcomes.
QuietAdds(q, observation, n) ==
  LET seen == [q EXCEPT !.lowest = IF n = 1 THEN observation ELSE Min(@, observation),
                        !.highest = Max(@, observation)]
      bs == Append(q.buckets, Bucket(observation))
  IN IF ~q.tracked THEN {q}
     ELSE IF ~q.alive THEN {seen}
     ELSE IF Len(bs) >= max_buckets
     THEN {[seen EXCEPT !.buckets = r.bs, !.compacted = r.ok, !.alive = r.ok] :
             r \in CompactResults(bs, n, FALSE)}
     ELSE {[seen EXCEPT !.buckets = bs, !.compacted = FALSE]}

\* Histogram::add_observation
add_observation(observation) ==
  /\ hist_alive
  /\ added < MaxAdds
  /\ added' = added + 1
  /\ observations' = observations + 1
  /\ quiet' \in QuietAdds(quiet, observation, observations + 1)
  /\ UNCHANGED quartiles
  /\ LET bs == Append(buckets, Bucket(observation)) IN
     IF Len(bs) >= max_buckets
     THEN \E r \in CompactResults(bs, observations', FALSE) :
            /\ buckets' = r.bs
            /\ compacted' = r.ok
            /\ hist_alive' = r.ok
            /\ hist_log' = [NoLog EXCEPT !.op = "add_observation",
                                         !.arg = observation,
                                         !.compactions = 1,
                                         !.after_first = r.bs]
     ELSE /\ buckets' = bs
          /\ compacted' = FALSE
          /\ hist_alive' = TRUE
          /\ hist_log' = [NoLog EXCEPT !.op = "add_observation",
                                       !.arg = observation]
  /\ UNCHANGED <<sink_vars, contract_vars, profile_vars, counter_vars, json_vars,
                 events_vars>>

\* Bucket::contains_rank
contains_rank(b, rank) == rank >= 1 /\ rank <= b.count

\* Bucket::get_rank: linear interpolation in unsigned integer arithmetic
get_rank(b, rank) ==
  IF b.count = 1 THEN b.min
  ELSE b.min + ((rank - 1) * b.span) \div (b.count - 1)

\* What a function that flows off its end without a return statement gives.
NoValue == 0 - 1

\* The loop of get_by_rank.  When no bucket contains the rank the function
\* flows off its end (assert(false) is compiled out).
RECURSIVE RankWalk(_, _)
RankWalk(bs, delta_rank) ==
  IF bs = <<>> THEN NoValue
  ELSE IF contains_rank(Head(bs), delta_rank)
       THEN get_rank(Head(bs), delta_rank)
       ELSE RankWalk(Tail(bs), delta_rank - get_count(Head(bs)))

\* Histogram::get_by_rank, on the compacted buckets bs of n observations
get_by_rank(bs, n, rank) ==
  IF n = 0 THEN 0 ELSE RankWalk(bs, Max(1, Min(rank, n)))

\* rank_t is an unsigned integer of rank_bits bits; the source has 32.
rank_bits == 6

RankRange == 0..(Pow2(rank_bits) - 1)

\* round_div(uint32_t, uint32_t), the overload chosen for a rank_t dividend:
\* the sum is computed in rank_t and wraps.
round_div_rank(dividend, divisor) ==
  ((dividend + (divisor \div 2)) % Pow2(rank_bits)) \div divisor

\* The quartile ranks of get_trimedian and get_interquantile_range.
q1_rank(n) == round_div_rank(n, 4)
q2_rank(n) == round_div_rank(n, 2)
q3_rank(n) == (q1_rank(n) + q2_rank(n)) % Pow2(rank_bits)

\* The three ranks computed for the count taken.
QuartileRanks ==
  /\ ~quartiles.done
  /\ quartiles' = [quartiles EXCEPT !.done = TRUE,
                                    !.q1 = q1_rank(quartiles.n),
                                    !.q2 = q2_rank(quartiles.n),
                                    !.q3 = q3_rank(quartiles.n)]
  /\ UNCHANGED <<buckets, observations, compacted, added, hist_alive, hist_log,
                 quiet>>
  /\ UNCHANGED <<sink_vars, contract_vars, profile_vars, counter_vars, json_vars,
                 events_vars>>

\* (Q1 + 2*Q2 + Q3) / 4 of get_trimedian, for four observations or more
trimedian_of_quartiles(bs, n) ==
  LET q1_obs == get_by_rank(bs, n, q1_rank(n))
      q2_obs == get_by_rank(bs, n, q2_rank(n))
      q3_obs == get_by_rank(bs, n, q3_rank(n))
  IN IF NoValue \in {q1_obs, q2_obs, q3_obs} THEN NoValue
     ELSE round_div(q1_obs + 2 * q2_obs + q3_obs, 4)

\* get_trimedian taking rank 2 for two observations
get_trimedian_second_of_two(bs, n) ==
  IF n < 4
  THEN IF n = 0 THEN 0
       ELSE IF n <= 1 THEN get_by_rank(bs, n, 1)
       ELSE get_by_rank(bs, n, 2)
  ELSE trimedian_of_quartiles(bs, n)

\* Histogram::get_trimedian
get_trimedian(bs, n) ==
  IF n < 4
  THEN IF n = 0 THEN 0
       ELSE IF n <= 2 THEN get_by_rank(bs, n, 1)
       ELSE get_by_rank(bs, n, 2)
  ELSE trimedian_of_quartiles(bs, n)

\* Q3 - Q1 of get_interquantile_range, for four observations or more
iqr_of_quartiles(bs, n) ==
  LET q1_obs == get_by_rank(bs, n, q1_rank(n))
      q3_obs == get_by_rank(bs, n, q3_rank(n))
  IN IF NoValue \in {q1_obs, q3_obs} THEN NoValue ELSE q3_obs - q1_obs

\* the span from rank 1 to rank n, for two or three observations
iqr_of_few(bs, n) ==
  LET lo == get_by_rank(bs, n, 1)
      hi == get_by_rank(bs, n, n)
  IN IF NoValue \in {lo, hi} THEN NoValue ELSE hi - lo

\* get_interquantile_range returning 0 for two observations as for one
get_interquantile_range_zero_for_two(bs, n) ==
  IF n < 4
  THEN IF n <= 2 THEN 0 ELSE iqr_of_few(bs, n)
  ELSE iqr_of_quartiles(bs, n)

\* Histogram::get_interquantile_range
get_interquantile_range(bs, n) ==
  IF n < 4
  THEN IF n <= 1 THEN 0 ELSE iqr_of_few(bs, n)
  ELSE iqr_of_quartiles(bs, n)

\* iqr_unbiased = 1.35623115191269, kept to seven digits as a fraction
iqr_unbiased_num == 1356231
iqr_unbiased_den == 1000000

\* A double q is kept as the integer q * iqr_unbiased_num (a multiple of
\* 1/iqr_unbiased_num): the doubles of have_outliers are an integer plus a
\* multiple of 1/iqr_unbiased.
Scaled(observation) == observation * iqr_unbiased_num

\* Histogram::get_standard_deviation, as Scaled
get_standard_deviation(bs, n) == get_interquantile_range(bs, n) * iqr_unbiased_den

\* std::lround of the non-negative double scaled / iqr_unbiased_num
lround(scaled) == (2 * scaled + iqr_unbiased_num) \div (2 * iqr_unbiased_num)

\* Histogram::get_min and Histogram::get_max
hist_get_min(bs) == IF Len(bs) # 0 THEN get_rank(bs[1], 1) ELSE 0
hist_get_max(bs) == IF Len(bs) # 0 THEN get_rank(Last(bs), get_count(Last(bs))) ELSE 0

\* the inner loop of count_low_values: ranks from 1 up to the first one
\* whose observation is above the threshold
LowInBucket(b, threshold) ==
  LET above == {r \in 1..b.count : get_rank(b, r) > threshold}
  IN IF above = {} THEN b.count
     ELSE (CHOOSE r \in above : \A q \in above : r <= q) - 1

\* Histogram::count_low_values
RECURSIVE count_low_values(_, _)
count_low_values(bs, threshold) ==
  IF bs = <<>> THEN 0
  ELSE IF get_max(Head(bs)) <= threshold
       THEN get_count(Head(bs)) + count_low_values(Tail(bs), threshold)
       ELSE LowInBucket(Head(bs), threshold)

\* the inner loop of count_high_values: ranks from _count down to the first
\* one whose observation is below the threshold
HighInBucket(b, threshold) ==
  LET below == {r \in 1..b.count : get_rank(b, r) < threshold}
  IN IF below = {} THEN b.count
     ELSE b.count - (CHOOSE r \in below : \A q \in below : r >= q)

\* Histogram::count_high_values
RECURSIVE count_high_values(_, _)
count_high_values(bs, threshold) ==
  IF bs = <<>> THEN 0
  ELSE IF get_min(Last(bs)) >= threshold
       THEN get_count(Last(bs)) + count_high_values(Front(bs), threshold)
       ELSE HighInBucket(Last(bs), threshold)

\* stddev_6sigma is (1-0.999999998026825)/2, about 1/1013590000, in the
\* source; the model takes 1/six_sigma_inverse so that an expected number
\* of outliers above 0 lies within MaxAdds observations.
six_sigma_inverse == 6

\* expected_outliers = std::lround(get_count()*stddev_6sigma)
expected_outliers(n) == (2 * n + six_sigma_inverse) \div (2 * six_sigma_inverse)

\* trimedian-6*standard_deviation and trimedian+6*standard_deviation, Scaled
low_6sigma(bs, n) == Scaled(get_trimedian(bs, n)) - 6 * get_standard_deviation(bs, n)
high_6sigma(bs, n) == Scaled(get_trimedian(bs, n)) + 6 * get_standard_deviation(bs, n)

\* Histogram::have_outliers: the pair (low_outliers, high_outliers)
\* converted to std::pair<bool,bool>
have_outliers(bs, n) ==
  LET expected_count == expected_outliers(n)
      low_values == count_low_values(bs, lround(low_6sigma(bs, n)))
      low_outliers ==
        IF low_6sigma(bs, n) >= Scaled(hist_get_min(bs)) /\ low_values > expected_count
        THEN low_values - expected_count ELSE 0
      high_values == count_high_values(bs, lround(high_6sigma(bs, n)))
      high_outliers ==
        IF high_6sigma(bs, n) <= Scaled(hist_get_max(bs)) /\ high_values > expected_count
        THEN high_values - expected_count ELSE 0
  IN [low |-> low_outliers # 0, high |-> high_outliers # 0]

MaxArg == 3   \* ranks and sparkline widths are drawn from 1..MaxArg

\* steps: the glyphs, by their index in the vector
steps == <<"▁", "▂", "▃", "▄", "▅", "▆", "▇", "█">>

\* The column index get_sparkline computes for an observation:
\* static_cast<rank_t>((observation-min_value) / bucket_width) with
\* bucket_width = range_value / (width-1) in double.  A range of 0 makes
\* the quotient 0/0 = NaN, and the conversion of NaN to rank_t is undefined:
\* it can give 0 or a value that is not below width (width stands for
\* these).  A width of 1 with a range above 0 divides by infinity.
SparklineIndexes(observation, min_value, range_value, width) ==
  IF range_value = 0 THEN {0, width}
  ELSE IF width = 1 THEN {0}
  ELSE {((observation - min_value) * (width - 1)) \div range_value}

\* the observations get_sparkline walks: one per bucket and rank
RankedObservations(bs) ==
  UNION {{<<k, r>> : r \in 1..bs[k].count} : k \in DOMAIN bs}

\* get_sparkline once there are buckets: the possible results.  indexes give each
\* observation its column; text is the glyph of each column; in_range
\* tells whether every index was below width (++buckets[index] writes
\* outside the vector otherwise).
sparkline_of(bs, width) ==
    LET min_value == hist_get_min(bs)
        range_value == hist_get_max(bs) - min_value
        obs == RankedObservations(bs)
        choices == SparklineIndexes(min_value, min_value, range_value, width)
        index(o, c) ==
          IF range_value = 0 THEN c
          ELSE CHOOSE i \in SparklineIndexes(get_rank(bs[o[1]], o[2]), min_value,
                                             range_value, width) : TRUE
    IN {LET column == [i \in 0..(width - 1) |->
                         Cardinality({o \in obs : index(o, c) = i})]
            max_height ==
              CHOOSE h \in {column[i] : i \in 0..(width - 1)} :
                \A i \in 0..(width - 1) : column[i] <= h
        IN IF \E o \in obs : index(o, c) >= width
           THEN [text |-> <<>>, in_range |-> FALSE]
           ELSE [text |-> [i \in 1..width |->
                             steps[1 + round_div(column[i - 1] * (Len(steps) - 1),
                                                 max_height)]],
                 in_range |-> TRUE]
        : c \in choices}

\* get_sparkline giving a line of the lowest glyph for an empty histogram
get_sparkline_blank(bs, width) ==
  IF Len(bs) = 0
  THEN {[text |-> [i \in 1..width |-> steps[1]], in_range |-> TRUE]}
  ELSE sparkline_of(bs, width)

\* Histogram::get_sparkline
get_sparkline(bs, width) ==
  IF Len(bs) = 0 THEN {[text |-> <<>>, in_range |-> TRUE]}
  ELSE sparkline_of(bs, width)

\* The read operations.  get_count only returns _observations; the others
\* start with compact_buckets (get_by_rank only when there are observations,
\* get_sparkline only when there are buckets).
ReadOps == {"get_count", "get_by_rank", "get_trimedian", "get_interquantile_range",
            "get_standard_deviation", "have_outliers", "get_sparkline"}

\* the argument of a read operation: a rank, a width, or none (0)
ReadArgs(op) == IF op \in {"get_by_rank", "get_sparkline"} THEN 1..MaxArg ELSE {0}

ReadCompacts(op) ==
  CASE op = "get_count" -> FALSE
    [] op = "get_by_rank" -> observations # 0
    [] op = "get_sparkline" -> Len(buckets) # 0
    [] OTHER -> TRUE

\* What a read operation returns.  defined is FALSE when the behaviour of
\* the call is undefined.
NoResult == [defined |-> TRUE, value |-> 0, low |-> FALSE, high |-> FALSE, text |-> <<>>]
ValueResult(v) == [NoResult EXCEPT !.defined = (v # NoValue), !.value = v]

ReadResults(op, arg, bs, n) ==
  CASE op = "get_count" -> {ValueResult(n)}
    [] op = "get_by_rank" -> {ValueResult(get_by_rank(bs, n, arg))}
    [] op = "get_trimedian" -> {ValueResult(get_trimedian(bs, n))}
    [] op = "get_interquantile_range" -> {ValueResult(get_interquantile_range(bs, n))}
    [] op = "get_standard_deviation" ->
         {[ValueResult(get_standard_deviation(bs, n)) EXCEPT
             !.defined = (get_interquantile_range(bs, n) # NoValue)]}
    [] op = "have_outliers" ->
         IF NoValue \in {get_trimedian(bs, n), get_interquantile_range(bs, n)}
         THEN {[NoResult EXCEPT !.defined = FALSE]}
         ELSE LET outliers == have_outliers(bs, n)
              IN {[NoResult EXCEPT !.low = outliers.low, !.high = outliers.high]}
    [] op = "get_sparkline" ->
         {[NoResult EXCEPT !.defined = r.in_range, !.text = r.text] :
            r \in get_sparkline(bs, arg)}

Read(op, arg) ==
  /\ hist_alive
  /\ \E r \in CompactResults(buckets, observations, compacted \/ ~ReadCompacts(op)) :
       /\ buckets' = r.bs
       /\ compacted' = (IF ReadCompacts(op) THEN r.ok ELSE compacted)
       /\ IF r.ok
          THEN \E res \in ReadResults(op, arg, r.bs, observations) :
                 /\ hist_alive' \in (IF res.defined THEN {TRUE} ELSE BOOLEAN)
                 /\ hist_log' =
                      [op |-> op, arg |-> arg, result |-> res,
                       compactions |->
                         IF ReadCompacts(op) THEN Min(hist_log.compactions + 1, 2)
                         ELSE hist_log.compactions,
                       after_first |->
                         IF ReadCompacts(op) /\ hist_log.compactions = 0
                         THEN r.bs ELSE hist_log.after_first]
          ELSE /\ hist_alive' = FALSE
               /\ hist_log' = [NoLog EXCEPT !.op = op, !.arg = arg]
  /\ UNCHANGED <<observations, added, quiet, quartiles>>
  /\ UNCHANGED <<sink_vars, contract_vars, profile_vars, counter_vars, json_vars,
                 events_vars>>

(***************************************************************************)
(* utility.hpp: format (std::vformat) and create_filename                  *)
(***************************************************************************)
\* The format string of create_filename, one character per element.
filename_format ==
  <<"{", "}", "-", "{", "}", "-", "{", "}", "{", "}", "{", "}", "}">>

\* std::vformat accepts a format string when every "{" opens a replacement
\* field "{}" or the escape "{{" and every "}" outside a field is the
\* escape "}}"; it throws std::format_error otherwise.
RECURSIVE vformat_ok(_)
vformat_ok(fmt) ==
  IF fmt = <<>> THEN TRUE
  ELSE IF Head(fmt) = "{"
       THEN /\ Len(fmt) >= 2
            /\ fmt[2] \in {"}", "{"}
            /\ vformat_ok(SubSeq(fmt, 3, Len(fmt)))
  ELSE IF Head(fmt) = "}"
       THEN /\ Len(fmt) >= 2
            /\ fmt[2] = "}"
            /\ vformat_ok(SubSeq(fmt, 3, Len(fmt)))
  ELSE vformat_ok(Tail(fmt))

\* create_filename returns normally only if its format call does.
create_filename_ok == vformat_ok(filename_format)

(***************************************************************************)
(* sink.hpp: SinkManager                                                   *)
(***************************************************************************)
MaxSinks == 2         \* sinks that can be registered
MaxRecords == 2       \* write_record calls explored

Threads == {"t1", "t2"}
SinkIds == 1..MaxSinks
DefaultSink == 0      \* the Json sink check_create_sinks would install

\* SinkManager::SinkManager
SinkIdle ==
  /\ sinks = <<>>
  /\ sinks_capacity = 0
  /\ workers = <<>>
  /\ tasks = <<>>
  /\ mutex = "free"
  /\ once_flag = FALSE
  /\ spc = [t \in Threads |-> "idle"]
  /\ sarg = [t \in Threads |-> 0]
  /\ manager = "alive"
  /\ written = [s \in SinkIds \cup {DefaultSink} |-> <<>>]
  /\ submitted = <<>>
  /\ submitter = <<>>
  /\ awaited = 0
  /\ sexc = [t \in Threads |-> "none"]
  /\ late_add = FALSE
  /\ unlocked = {}

\* std::vector growth on emplace_back into a full vector (libstdc++ doubles).
GrowCapacity(c) == IF c = 0 THEN 1 ELSE 2 * c

\* _sinks.emplace_back(sink): the vector, its capacity, and the tasks, whose
\* captured reference to a vector element dangles once the vector has moved
\* its elements to new storage.
EmplaceSink(s) ==
  LET realloc == Len(sinks) = sinks_capacity IN
  /\ sinks' = Append(sinks, s)
  /\ sinks_capacity' = IF realloc THEN GrowCapacity(sinks_capacity) ELSE sinks_capacity
  /\ tasks' = [i \in DOMAIN tasks |->
                 IF realloc /\ tasks[i].state = "running"
                 THEN [tasks[i] EXCEPT !.ref = 0] ELSE tasks[i]]

\* SinkManager::add_sink, called by the application
add_sink(s) ==
  /\ manager = "alive"
  /\ mutex = "free"
  /\ s \notin {sinks[i] : i \in DOMAIN sinks}
  /\ EmplaceSink(s)
  /\ late_add' = (late_add \/ submitted # <<>>)
  /\ UNCHANGED <<workers, mutex, once_flag, spc, sarg, manager, written,
                 submitted, submitter, awaited, sexc, unlocked>>
  /\ UNCHANGED <<hist_vars, contract_vars, profile_vars, counter_vars, json_vars,
                 events_vars>>

\* SinkManager::write_record(record) is entered by thread t.
WriteRecordEnter(t, record) ==
  /\ manager = "alive"
  /\ spc[t] = "idle"
  /\ submitted' = Append(submitted, record)
  /\ submitter' = Append(submitter, t)
  /\ sarg' = [sarg EXCEPT ![t] = record]
  /\ sexc' = [sexc EXCEPT ![t] = "none"]
  /\ spc' = [spc EXCEPT ![t] = "call_once"]
  /\ UNCHANGED <<sinks, sinks_capacity, workers, tasks, mutex, once_flag,
                 manager, written, awaited, late_add, unlocked>>

\* The application submits its next record (records are numbered 1, 2, ..).
WriteRecordCall(t) ==
  /\ Len(submitted) < MaxRecords
  /\ WriteRecordEnter(t, Len(submitted) + 1)
  /\ UNCHANGED <<hist_vars, contract_vars, profile_vars, counter_vars, json_vars,
                 events_vars>>

\* std::call_once(_create_sinks_once_flag, check_create_sinks).  With no sink
\* registered check_create_sinks calls Json::add_sink(), whose Json
\* constructor reaches create_filename; an exception leaves the flag unset
\* and propagates out of write_record.  check_create_sinks runs before
\* write_record takes _mutex: its _sinks.empty() is an unlocked read.
WriteRecordCallOnce(t) ==
  /\ spc[t] = "call_once"
  /\ unlocked' = IF once_flag THEN unlocked
                 ELSE unlocked \cup {"check_create_sinks"}
  /\ IF once_flag
     THEN /\ spc' = [spc EXCEPT ![t] = "lock"]
          /\ UNCHANGED <<sinks, sinks_capacity, tasks, once_flag, sarg, sexc>>
     ELSE IF sinks = <<>>
          THEN IF create_filename_ok
               THEN /\ mutex = "free"
                    /\ EmplaceSink(DefaultSink)
                    /\ once_flag' = TRUE
                    /\ spc' = [spc EXCEPT ![t] = "lock"]
                    /\ UNCHANGED <<sarg, sexc>>
               ELSE /\ spc' = [spc EXCEPT ![t] = "idle"]
                    /\ sarg' = [sarg EXCEPT ![t] = 0]
                    /\ sexc' = [sexc EXCEPT ![t] = "format_error"]
                    /\ UNCHANGED <<sinks, sinks_capacity, tasks, once_flag>>
          ELSE /\ once_flag' = TRUE
               /\ spc' = [spc EXCEPT ![t] = "lock"]
               /\ UNCHANGED <<sinks, sinks_capacity, tasks, sarg, sexc>>
  /\ UNCHANGED <<workers, mutex, manager, written, submitted, submitter, awaited, late_add>>
  /\ UNCHANGED <<hist_vars, contract_vars, profile_vars, counter_vars, json_vars,
                 events_vars>>

\* A drain that drops every future, ready or not.
check_workers_drop_all(ws) == <<>>

\* check_workers: the futures that are not ready stay, in order.
check_workers(ws) == SelectSeq(ws, LAMBDA id : tasks[id].state # "ready")

\* The tasks write_record launches for a record: one per element of _sinks,
\* each holding a reference to that element (its index) and the record.
launch(record) ==
  [i \in DOMAIN sinks |->
     [ref |-> i, record |-> record, state |-> "running", target |-> 0,
      raced |-> FALSE, intact |-> TRUE]]

\* The body of write_record under the lock_guard.
WriteRecordLocked(t) ==
  /\ spc[t] = "lock"
  /\ mutex = "free"
  /\ LET new == launch(sarg[t]) IN
     /\ tasks' = tasks \o new
     /\ workers' = check_workers(workers) \o
                     [i \in DOMAIN new |-> Len(tasks) + i]
  /\ spc' = [spc EXCEPT ![t] = "idle"]
  /\ sarg' = [sarg EXCEPT ![t] = 0]
  /\ UNCHANGED <<sinks, sinks_capacity, mutex, once_flag, manager, written,
                 submitted, submitter, awaited, sexc, late_add, unlocked>>
  /\ UNCHANGED <<hist_vars, contract_vars, profile_vars, counter_vars, json_vars,
                 events_vars>>

\* The tasks that are inside write_record of sink s.
Writing(s) ==
  {i \in DOMAIN tasks : tasks[i].state = "writing" /\ tasks[i].target = s}

\* A task that had to take _mutex before it calls into its sink.
task_can_start_with_mutex(id) == tasks[id].state = "running" /\ mutex = "free"

\* The lambda of a worker task, [&sink, record]{return sink->write_record(
\* record);}, runs on its own thread (std::launch::async) and takes no lock
\* of the SinkManager: a launched task can start whoever holds _mutex.
task_can_start(id) == tasks[id].state = "running"

\* A worker task starts: it reads the element of _sinks behind its
\* captured reference, without _mutex, and enters write_record of that
\* sink (Json::write_record and Csv::write_record take no lock; the record
\* is never filtered).  Through a dangling reference (ref = 0) the
\* behaviour is undefined: the call lands in some sink, or the process
\* dies.  A task that finds another one inside the same sink races with
\* it on the sink's stream.
TaskRun(id) ==
  /\ manager \in {"alive", "destroying"}
  /\ id \in DOMAIN tasks
  /\ task_can_start(id)
  /\ unlocked' = unlocked \cup {"worker"}
  /\ \/ /\ \E s \in (IF tasks[id].ref # 0 THEN {sinks[tasks[id].ref]}
                     ELSE DOMAIN written) :
             tasks' = [i \in DOMAIN tasks |->
               IF i = id
               THEN [tasks[i] EXCEPT !.state = "writing", !.target = s,
                                     !.raced = (Writing(s) # {})]
               ELSE IF i \in Writing(s)
                    THEN [tasks[i] EXCEPT !.raced = TRUE]
                    ELSE tasks[i]]
        /\ UNCHANGED manager
     \/ /\ tasks[id].ref = 0
        /\ manager' = "crashed"
        /\ UNCHANGED tasks
  /\ UNCHANGED <<sinks, sinks_capacity, workers, mutex, once_flag, spc, sarg,
                 written, submitted, submitter, awaited, sexc, late_add>>
  /\ UNCHANGED <<hist_vars, contract_vars, profile_vars, counter_vars, json_vars,
                 events_vars>>

\* The worker's write_record returns and its future becomes ready.  The
\* one _output_stream->write has put the record into the stream; after a
\* race on the stream (undefined behaviour) the record is in the output
\* whole, or it is not, or the process dies.
TaskReturn(id) ==
  /\ manager \in {"alive", "destroying"}
  /\ id \in DOMAIN tasks
  /\ tasks[id].state = "writing"
  /\ \/ /\ tasks' = [tasks EXCEPT ![id].state = "ready"]
        /\ written' = [written EXCEPT ![tasks[id].target] =
                         Append(@, tasks[id].record)]
        /\ UNCHANGED manager
     \/ /\ tasks[id].raced
        /\ tasks' = [tasks EXCEPT ![id].state = "ready", ![id].intact = FALSE]
        /\ UNCHANGED <<written, manager>>
     \/ /\ tasks[id].raced
        /\ manager' = "crashed"
        /\ UNCHANGED <<written, tasks>>
  /\ UNCHANGED <<sinks, sinks_capacity, workers, mutex, once_flag, spc, sarg,
                 submitted, submitter, awaited, sexc, late_add, unlocked>>
  /\ UNCHANGED <<hist_vars, contract_vars, profile_vars, counter_vars, json_vars,
                 events_vars>>

\* SinkManager::~SinkManager takes the lock.  The object is destroyed when
\* no member function is executing on it.
DestructorLock ==
  /\ manager = "alive"
  /\ mutex = "free"
  /\ \A t \in Threads : spc[t] = "idle"
  /\ manager' = "destroying"
  /\ mutex' = "destructor"
  /\ UNCHANGED <<sinks, sinks_capacity, workers, tasks, once_flag, spc, sarg,
                 written, submitted, submitter, awaited, sexc, late_add,
                 unlocked>>
  /\ UNCHANGED <<hist_vars, contract_vars, profile_vars, counter_vars, json_vars,
                 events_vars>>

\* A wait that returns at once, as wait_for(0s) does.
wait_returns_at_once(id) == TRUE

\* wait_workers visits the futures in order; fut.wait() returns once the
\* task of the future has finished.
wait_returns(id) == tasks[id].state = "ready"

\* wait_workers: one element of the remove_if
DestructorWait ==
  /\ manager = "destroying"
  /\ workers # <<>>
  /\ wait_returns(Head(workers))
  /\ workers' = Tail(workers)
  /\ awaited' = awaited + 1
  /\ UNCHANGED <<sinks, sinks_capacity, tasks, mutex, once_flag, spc, sarg,
                 manager, written, submitted, submitter, sexc, late_add, unlocked>>
  /\ UNCHANGED <<hist_vars, contract_vars, profile_vars, counter_vars, json_vars,
                 events_vars>>

\* wait_workers is through the list: the destructor returns.
DestructorReturn ==
  /\ manager = "destroying"
  /\ workers = <<>>
  /\ manager' = "destroyed"
  /\ mutex' = "free"
  /\ UNCHANGED <<sinks, sinks_capacity, workers, tasks, once_flag, spc, sarg,
                 written, submitted, submitter, awaited, sexc, late_add,
                 unlocked>>
  /\ UNCHANGED <<hist_vars, contract_vars, profile_vars, counter_vars, json_vars,
                 events_vars>>

(***************************************************************************)
(* contract.hpp, with record.hpp's source_location_to_record and           *)
(* utility.hpp's format_source_location.  One application thread, t1,      *)
(* calls the checks, constructs and releases guards, and throws and        *)
(* catches exceptions of its own.                                          *)
(***************************************************************************)
MaxViolations == 2    \* failed contract checks explored
MaxGuards == 2        \* nesting depth of Invariant/Ensure objects

CheckKinds == {"argument", "expect", "confirm"}
GuardKinds == {"invariant", "ensure"}

\* The std::source_location values of the call sites.
Locations ==
  {[file |-> "x.c", line |-> 42, column |-> 3, function |-> "f"],
   [file |-> "y.c", line |-> 7, column |-> 1, function |-> "g"]}

\* format_source_location
format_source_location(location) ==
  <<location.file, "(", location.line, ":", location.column, "): ",
    location.function>>

\* The text each contract operation puts after the location.
MessageText(kind, phase) ==
  CASE kind = "argument" -> "invalid argument"
    [] kind = "expect" -> "expect condition failed"
    [] kind = "confirm" -> "confirm failed"
    [] kind = "invariant" /\ phase = "ctor" -> "invariant failed on entry"
    [] kind = "invariant" /\ phase = "dtor" -> "invariant failed on exit"
    [] kind = "ensure" -> "ensure condition failed on exit"

\* format("ERROR: {}: <text>\n", format_source_location(location))
Message(kind, phase, location) ==
  <<"ERROR: ">> \o format_source_location(location) \o
  <<": ", MessageText(kind, phase), "\n">>

\* source_location_to_record
source_location_to_record(location) ==
  [k \in {"file", "line", "column", "function"} |->
     CASE k = "file" -> location.file
       [] k = "line" -> location.line
       [] k = "column" -> location.column
       [] k = "function" -> location.function]

\* std::unordered_map::merge: the keys of source that the map lacks move in.
RecordMerge(record, source) ==
  [k \in DOMAIN record \cup DOMAIN source |->
     IF k \in DOMAIN record THEN record[k] ELSE source[k]]

\* The subcategory each contract operation writes into its record.
Subcategory(kind) == kind

\* The record a failed contract operation builds.
ContractRecord(kind, phase, location) ==
  RecordMerge(
    [k \in {"category", "subcategory", "message"} |->
       CASE k = "category" -> "contract"
         [] k = "subcategory" -> Subcategory(kind)
         [] k = "message" -> Message(kind, phase, location)],
    source_location_to_record(location))

ContractIdle ==
  /\ cpc = "run"
  /\ cctx = [kind |-> "none"]
  /\ guards = <<>>
  /\ uncaught = 0
  /\ propagating = "none"
  /\ terminated = FALSE
  /\ outcomes = <<>>

Running == cpc = "run" /\ ~terminated /\ manager = "alive"

\* A failed contract operation builds its record and calls
\* g_sink_manager.write_record(record).
Violation(kind, phase, location, ctx) ==
  /\ Len(outcomes) < MaxViolations
  /\ WriteRecordEnter("t1", ContractRecord(kind, phase, location))
  /\ cpc' = phase
  /\ cctx' = [kind |-> kind, location |-> location,
              sub |-> Len(submitted) + 1] @@ ctx

\* argument(condition), expect(condition), confirm(condition)
Check(kind, condition, location) ==
  /\ Running
  /\ propagating = "none"
  /\ IF condition
     THEN UNCHANGED <<sink_vars, cpc, cctx>>
     ELSE Violation(kind, "check", location, <<>>)
  /\ UNCHANGED <<guards, uncaught, propagating, terminated, outcomes>>
  /\ UNCHANGED <<hist_vars, profile_vars, counter_vars, json_vars,
                 events_vars>>

\* Invariant::Invariant and Ensure::Ensure.  condition is what the
\* predicate returns now; only Invariant evaluates it.
GuardConstruct(kind, condition, location) ==
  /\ Running
  /\ propagating = "none"
  /\ Len(guards) < MaxGuards
  /\ IF kind = "invariant" /\ ~condition
     THEN /\ Violation(kind, "ctor", location, <<>>)
          /\ UNCHANGED guards
     ELSE /\ guards' = Append(guards, [kind |-> kind, location |-> location,
                                       uncaught_exceptions |-> uncaught])
          /\ UNCHANGED <<sink_vars, cpc, cctx>>
  /\ UNCHANGED <<uncaught, propagating, terminated, outcomes>>
  /\ UNCHANGED <<hist_vars, profile_vars, counter_vars, json_vars,
                 events_vars>>

\* The application throws an exception of its own.
AppThrow ==
  /\ Running
  /\ propagating = "none"
  /\ propagating' = "app_error"
  /\ uncaught' = uncaught + 1
  /\ UNCHANGED <<sink_vars, cpc, cctx, guards, terminated, outcomes>>
  /\ UNCHANGED <<hist_vars, profile_vars, counter_vars, json_vars,
                 events_vars>>

\* The application catches the exception in flight.
AppCatch ==
  /\ Running
  /\ propagating # "none"
  /\ propagating' = "none"
  /\ uncaught' = uncaught - 1
  /\ UNCHANGED <<sink_vars, cpc, cctx, guards, terminated, outcomes>>
  /\ UNCHANGED <<hist_vars, profile_vars, counter_vars, json_vars,
                 events_vars>>

\* Invariant::~Invariant and Ensure::~Ensure for the innermost guard, at
\* the end of its scope or while the stack is unwound.  condition is what
\* the predicate returns now.
GuardRelease(condition) ==
  /\ Running
  /\ guards # <<>>
  /\ guards' = Front(guards)
  /\ IF condition
     THEN UNCHANGED <<sink_vars, cpc, cctx>>
     ELSE LET g == Last(guards) IN
          Violation(g.kind, "dtor", g.location,
                    [uncaught_exceptions |-> g.uncaught_exceptions,
                     unwinding |-> propagating # "none"])
  /\ UNCHANGED <<uncaught, propagating, terminated, outcomes>>
  /\ UNCHANGED <<hist_vars, profile_vars, counter_vars, json_vars,
                 events_vars>>

\* A destructor that rethrows whatever the count of uncaught exceptions.
always_rethrow(uncaught_now, uncaught_at_construction) == TRUE

\* The test of the catch (...) clause of the two destructors.
safe_to_rethrow(uncaught_now, uncaught_at_construction) ==
  uncaught_now = uncaught_at_construction

\* write_record has returned to the contract operation, normally or with an
\* exception.  A check and the Invariant constructor then throw
\* contract_violation (or let write_record's exception pass).  In the
\* destructors either exception is caught by catch (...) and rethrown when
\* safe_to_rethrow; an exception that leaves a destructor, which is
\* noexcept, ends in std::terminate.
Resume ==
  /\ cpc # "run"
  /\ ~terminated
  /\ spc["t1"] = "idle"
  /\ LET thrown == IF sexc["t1"] = "none" THEN "contract_violation"
                   ELSE sexc["t1"]
         entry == [kind |-> cctx.kind, location |-> cctx.location,
                   phase |-> cpc, sub |-> cctx.sub, thrown |-> thrown,
                   unwinding |-> (cpc = "dtor" /\ cctx.unwinding)]
     IN
     IF cpc \in {"check", "ctor"}
     THEN /\ propagating' = thrown
          /\ uncaught' = uncaught + 1
          /\ terminated' = FALSE
          /\ outcomes' = Append(outcomes, entry @@ [result |-> "thrown"])
     ELSE IF safe_to_rethrow(uncaught, cctx.uncaught_exceptions)
          THEN /\ terminated' = TRUE
               /\ outcomes' = Append(outcomes, entry @@ [result |-> "terminate"])
               /\ UNCHANGED <<propagating, uncaught>>
          ELSE /\ outcomes' = Append(outcomes, entry @@ [result |-> "discarded"])
               /\ UNCHANGED <<propagating, uncaught, terminated>>
  /\ cpc' = "run"
  /\ cctx' = [kind |-> "none"]
  /\ UNCHANGED <<sink_vars, guards>>
  /\ UNCHANGED <<hist_vars, profile_vars, counter_vars, json_vars,
                 events_vars>>

(***************************************************************************)
(* gioppler.hpp: the scope profiler.  A Function object is constructed at  *)
(* scope entry and destroyed at scope exit.  The constructor is one step;  *)
(* the destructor is three, because other threads can run between its      *)
(* update of _threads_active, its read of it and write_profile_map.        *)
(***************************************************************************)
MaxDepth == 2      \* nesting depth of scopes on one thread
MaxEntries == 3    \* scope entries explored
MaxClock == 3      \* ticks of the measured counter

Signatures == {"outer", "inner"}
Keys == (Signatures \cup {""}) \X Signatures

\* ProfileData's constructor: every accumulator starts at zero.
ProfileData ==
  [function_calls |-> 0, linux_event_data_total |-> 0,
   linux_event_data_self |-> 0]

\* config.hpp: the values of g_build_mode.  Function has a constructor for
\* off and for profile only.
BuildModes == {"off", "development", "test", "profile", "qa", "production"}

ProfileStatics ==
  /\ once_flag_create = FALSE
  /\ once_flag_destroy = FALSE
  /\ p_program = FALSE
  /\ p_thread = [t \in Threads |-> 0]
  /\ threads_created = 0
  /\ threads_active = 0
  /\ functions = [t \in Threads |-> <<>>]
  /\ profile_map = <<>>
  /\ ppc = [t \in Threads |-> "run"]
  /\ observed = [t \in Threads |-> 0]
  /\ emissions = <<>>
  /\ scopes = [t \in Threads |-> <<>>]
  /\ clock = 0
  /\ expected = [k \in Keys |-> ProfileData]
  /\ entries = 0

ProfileIdle ==
  /\ build_mode \in {"off", "profile"}
  /\ ProfileStatics

\* A test that takes the exiting thread for still counted.
all_but_one_done(active) == active <= 1

\* Thread::all_threads_done, applied to the value read from _threads_active
all_threads_done(active) == active = 0

\* Thread::Thread with _thread_id = prev_threads_created
thread_id_from_zero(prev_threads_created) == prev_threads_created

\* Thread::Thread: _thread_id, from what atomic_fetch_add returned
thread_id(prev_threads_created) == prev_threads_created + 1

\* Function::Function.  In profile mode check_create_program_thread runs
\* Program::check_create (call_once) and Thread::check_create; in off mode
\* the constructor is empty.  Nothing is pushed on _functions.
FunctionEnter(t, signature) ==
  /\ ppc[t] = "run"
  /\ Len(scopes[t]) < MaxDepth
  /\ entries < MaxEntries
  /\ entries' = entries + 1
  /\ IF build_mode = "profile"
     THEN /\ once_flag_create' = TRUE
          /\ p_program' = IF once_flag_create THEN p_program ELSE TRUE
          /\ IF p_thread[t] = 0
             THEN /\ p_thread' = [p_thread EXCEPT ![t] = thread_id(threads_created)]
                  /\ threads_created' = threads_created + 1
                  /\ threads_active' = threads_active + 1
             ELSE UNCHANGED <<p_thread, threads_created, threads_active>>
     ELSE UNCHANGED <<once_flag_create, p_program, p_thread, threads_created,
                      threads_active>>
  /\ scopes' = [scopes EXCEPT ![t] = Append(@,
        [signature |-> signature,
         parent_signature |-> IF scopes[t] = <<>> THEN ""
                              ELSE Last(scopes[t]).signature,
         entry_snapshot |-> clock,
         children_inclusive_accum |-> 0])]
  /\ UNCHANGED <<build_mode, once_flag_destroy, functions, profile_map, ppc,
                 observed, emissions, clock, expected>>
  /\ UNCHANGED <<hist_vars, sink_vars, contract_vars, counter_vars, json_vars,
                 events_vars>>

\* ~Function, first step of check_destroy_program_thread:
\* if (_functions.empty()) Thread::destroy();  deleting a null _p_thread
\* does nothing, deleting a Thread decrements _threads_active.
FunctionExitDestroy(t) ==
  /\ ppc[t] = "run"
  /\ scopes[t] # <<>>
  /\ ppc' = [ppc EXCEPT ![t] = "observe"]
  /\ IF functions[t] = <<>> /\ p_thread[t] # 0
     THEN /\ threads_active' = threads_active - 1
          /\ p_thread' = [p_thread EXCEPT ![t] = 0]
     ELSE UNCHANGED <<threads_active, p_thread>>
  /\ UNCHANGED <<build_mode, once_flag_create, once_flag_destroy, p_program,
                 threads_created, functions, profile_map, observed, emissions,
                 scopes, clock, expected, entries>>
  /\ UNCHANGED <<hist_vars, sink_vars, contract_vars, counter_vars, json_vars,
                 events_vars>>

\* ~Function, second step: Thread::all_threads_done reads _threads_active.
FunctionExitObserve(t) ==
  /\ ppc[t] = "observe"
  /\ observed' = [observed EXCEPT ![t] = threads_active]
  /\ ppc' = [ppc EXCEPT ![t] = "emit"]
  /\ UNCHANGED <<build_mode, once_flag_create, once_flag_destroy, p_program,
                 p_thread, threads_created, threads_active, functions,
                 profile_map, emissions, scopes, clock, expected, entries>>
  /\ UNCHANGED <<hist_vars, sink_vars, contract_vars, counter_vars, json_vars,
                 events_vars>>

\* What the scope that ends now adds to the totals of its key: one call,
\* the counter's advance since the entry, and that advance less the
\* advances of the scopes nested directly in it.
ScopeTotals(totals, frame, now) ==
  LET key == <<frame.parent_signature, frame.signature>>
      inclusive_delta == now - frame.entry_snapshot
      exclusive_delta == inclusive_delta - frame.children_inclusive_accum
  IN [totals EXCEPT ![key] =
        [function_calls |-> @.function_calls + 1,
         linux_event_data_total |-> @.linux_event_data_total + inclusive_delta,
         linux_event_data_self |-> @.linux_event_data_self + exclusive_delta]]

\* The stack once its top scope has ended: the scope below has the ended
\* scope's advance added to what its children took.
ScopePop(stack, now) ==
  LET frame == Last(stack)
      rest == Front(stack)
  IN IF rest = <<>> THEN rest
     ELSE [rest EXCEPT ![Len(rest)].children_inclusive_accum =
             @ + (now - frame.entry_snapshot)]

\* ~Function, last step: if all_threads_done, write_profile_map and
\* Program::check_destroy (call_once); then the object is gone.  Neither
\* upsert_profile_map nor any other code touches _profile_map.
FunctionExitEmit(t) ==
  /\ ppc[t] = "emit"
  /\ ppc' = [ppc EXCEPT ![t] = "run"]
  /\ IF all_threads_done(observed[t])
     THEN /\ emissions' = Append(emissions,
                [thread |-> t, observed |-> observed[t], map |-> profile_map])
          /\ once_flag_destroy' = TRUE
          /\ p_program' = IF once_flag_destroy THEN p_program ELSE FALSE
     ELSE UNCHANGED <<emissions, once_flag_destroy, p_program>>
  /\ expected' = ScopeTotals(expected, Last(scopes[t]), clock)
  /\ scopes' = [scopes EXCEPT ![t] = ScopePop(@, clock)]
  /\ UNCHANGED <<build_mode, once_flag_create, p_thread, threads_created,
                 threads_active, functions, profile_map, observed, clock,
                 entries>>
  /\ UNCHANGED <<hist_vars, sink_vars, contract_vars, counter_vars, json_vars,
                 events_vars>>

\* The measured counter advances.
Tick ==
  /\ clock < MaxClock
  /\ clock' = clock + 1
  /\ UNCHANGED <<build_mode, once_flag_create, once_flag_destroy, p_program,
                 p_thread, threads_created, threads_active, functions,
                 profile_map, ppc, observed, emissions, scopes, expected,
                 entries>>
  /\ UNCHANGED <<hist_vars, sink_vars, contract_vars, counter_vars, json_vars,
                 events_vars>>

(***************************************************************************)
(* linux/counter.hpp: LinuxEvent, the wrapper of one perf_event file       *)
(* descriptor.  What the kernel answers is an input of each action.  The   *)
(* counters are uint64_t in the source; the model keeps them counter_bits  *)
(* wide.                                                                   *)
(***************************************************************************)
counter_bits == 3

\* The values a counter variable can hold.
CounterRange == 0 .. (Pow2(counter_bits) - 1)

\* What the kernel puts into ReadData's value, time_enabled, time_running.
KernelValues == {0, 1, 2}

NoRead == [value |-> 0, time_enabled |-> 0, time_running |-> 0, scaled |-> 0,
           done |-> FALSE]

\* LinuxEventsData: the counters the derived metrics are computed from.
Fields ==
  {"sw_cpu_clock", "sw_task_clock", "sw_page_faults_maj", "hw_cpu_cycles",
   "hw_instructions", "hw_stalled_cycles_frontend",
   "hw_stalled_cycles_backend", "hw_cache_references", "hw_cache_misses",
   "hw_branch_instructions", "hw_branch_misses"}

\* LinuxEventsData data{}
ZeroData == [f \in Fields |-> 0]

NoOp == [op |-> "none", lhs |-> ZeroData, rhs |-> ZeroData]

CounterIdle ==
  /\ process = "running"
  /\ event = "none"
  /\ event_read = NoRead
  /\ data = ZeroData
  /\ last_op = NoOp
  /\ metrics = [computed |-> FALSE]
  /\ data_ops = 0

\* Every error branch of LinuxEvent: a message on std::cerr, then
\* std::exit(EXIT_FAILURE).
KernelCall(ok, from, to) ==
  /\ process = "running"
  /\ event \in from
  /\ IF ok
     THEN /\ event' = to
          /\ UNCHANGED process
     ELSE /\ process' = "exited"
          /\ UNCHANGED event
  /\ UNCHANGED <<hist_vars, sink_vars, contract_vars, profile_vars, json_vars,
                 events_vars>>

\* LinuxEvent::LinuxEvent(name, type, event): open_event
open_event(ok) ==
  /\ KernelCall(ok, {"none"}, "open")
  /\ UNCHANGED <<event_read, data, last_op, metrics, data_ops>>

\* LinuxEvent::reset_events: reset_event
reset_event(ok) ==
  /\ KernelCall(ok, {"open", "enabled", "disabled"}, event)
  /\ UNCHANGED <<event_read, data, last_op, metrics, data_ops>>

\* LinuxEvent::enable_events: enable_event
enable_event(ok) ==
  /\ KernelCall(ok, {"open", "disabled"}, "enabled")
  /\ UNCHANGED <<event_read, data, last_op, metrics, data_ops>>

\* The first half of LinuxEvent::~LinuxEvent: disable_event
disable_event(ok) ==
  /\ KernelCall(ok, {"open", "enabled"}, "disabled")
  /\ UNCHANGED <<event_read, data, last_op, metrics, data_ops>>

\* The second half of LinuxEvent::~LinuxEvent: close_event
close_event(ok) ==
  /\ KernelCall(ok, {"disabled"}, "closed")
  /\ UNCHANGED <<event_read, data, last_op, metrics, data_ops>>

\* static_cast<uint64_t>(value * (1.0 / (time_running / time_enabled))),
\* computed in double.  A zero time_running with a nonzero time_enabled
\* gives 1.0/0.0 = inf and value*inf = inf or NaN; zero over zero gives NaN;
\* converting inf, NaN or a value beyond the range to uint64_t is
\* undefined, any bit pattern can come out.  A zero time_enabled with a
\* nonzero time_running gives 1.0/inf = 0.
scaled_counter(value, time_enabled, time_running) ==
  IF time_running = 0 THEN CounterRange
  ELSE IF time_enabled = 0 THEN {0}
  ELSE LET q == (value * time_enabled) \div time_running
       IN IF q \in CounterRange THEN {q} ELSE CounterRange

\* LinuxEvent::read_event1: read_event
read_event(ok, value, time_enabled, time_running) ==
  /\ process = "running"
  /\ event \in {"open", "enabled", "disabled"}
  /\ IF ok
     THEN /\ \E c \in scaled_counter(value, time_enabled, time_running) :
               event_read' = [value |-> value, time_enabled |-> time_enabled,
                              time_running |-> time_running, scaled |-> c,
                              done |-> TRUE]
          /\ UNCHANGED process
     ELSE /\ process' = "exited"
          /\ UNCHANGED event_read
  /\ UNCHANGED <<event, data, last_op, metrics, data_ops>>
  /\ UNCHANGED <<hist_vars, sink_vars, contract_vars, profile_vars, json_vars,
                 events_vars>>

(***************************************************************************)
(* linux/counter.hpp: LinuxEvents, the LinuxEvent members of one thread,   *)
(* each with one event here, and the descriptors the kernel has open.      *)
(* perf_event_open returns the lowest descriptor that is free; ioctl, read *)
(* and close on a descriptor that is not open return -1 (EBADF).           *)
(***************************************************************************)
MaxMembers == 3     \* LinuxEvent members of LinuxEvents
MaxFds == 3         \* descriptors the process can have open

Fds == 1..MaxFds

\* What an int member that no constructor has set can hold.
Indeterminate == Fds \cup {0 - 1}

\* No LinuxEvents object.
EventsIdle ==
  /\ ev_pc = "none"
  /\ ev_members = <<>>
  /\ ev_opened = 0
  /\ kernel_fds = {}
  /\ handles = <<>>
  /\ bad_calls = {}

\* LinuxEvents::LinuxEvents before its body: every member was built by
\* LinuxEvent(), which sets _num_events to 0 and leaves _fd1 unset.
LinuxEventsConstructed ==
  /\ ev_pc = "open_events"
  /\ ev_members \in [1..MaxMembers -> [num_events : {0}, fd1 : Indeterminate]]
  /\ ev_opened = 0
  /\ kernel_fds = {}
  /\ handles = <<>>
  /\ bad_calls = {}

LowestFree(fds) == CHOOSE fd \in Fds \ fds : \A g \in Fds \ fds : fd <= g

\* One statement of open_events, _fd_x = LinuxEvent(name, type, event):
\* the constructor of the temporary opens a descriptor, the implicit copy
\* assignment copies _num_events and the descriptors into the member, and
\* at the end of the statement ~LinuxEvent of the temporary disables and
\* closes the descriptor.  A call that fails ends the process.
AssignEvent(ok_open, ok_disable, ok_close) ==
  /\ process = "running"
  /\ ev_pc = "open_events"
  /\ ev_opened < MaxMembers
  /\ IF ~ok_open \/ Fds \ kernel_fds = {}
     THEN /\ process' = "exited"
          /\ UNCHANGED events_vars
     ELSE LET k == ev_opened + 1
              fd == LowestFree(kernel_fds)
          IN /\ ev_members' = [ev_members EXCEPT ![k] = [num_events |-> 1, fd1 |-> fd]]
             /\ ev_opened' = k
             /\ ev_pc' = IF k = MaxMembers THEN "ready" ELSE "open_events"
             /\ process' = IF ok_disable /\ ok_close THEN "running" ELSE "exited"
             /\ kernel_fds' = IF ok_disable THEN kernel_fds ELSE kernel_fds \cup {fd}
             /\ handles' = Append(handles,
                   [fd |-> fd, closes |-> IF ok_disable THEN 1 ELSE 0,
                    open |-> ~ok_disable])
             /\ UNCHANGED bad_calls
  /\ UNCHANGED <<event, event_read, data, last_op, metrics, data_ops>>
  /\ UNCHANGED <<hist_vars, sink_vars, contract_vars, profile_vars, json_vars>>

\* The same call made on every member in turn, as enable_events and
\* get_snapshot do: [exited, bad], the calls that met a descriptor that
\* was not open.  A call that returns -1 ends the process.
RECURSIVE MemberCalls(_, _, _)
MemberCalls(call, k, oks) ==
  IF k > Len(ev_members) THEN [exited |-> FALSE, bad |-> {}]
  ELSE LET fd == ev_members[k].fd1 IN
       IF fd \notin kernel_fds
       THEN [exited |-> TRUE, bad |-> {[call |-> call, member |-> k, fd |-> fd]}]
       ELSE IF ~oks[k] THEN [exited |-> TRUE, bad |-> {}]
       ELSE MemberCalls(call, k + 1, oks)

MembersCalled(call, oks) ==
  /\ process = "running"
  /\ ev_pc = "ready"
  /\ LET r == MemberCalls(call, 1, oks) IN
       /\ process' = IF r.exited THEN "exited" ELSE "running"
       /\ bad_calls' = bad_calls \cup r.bad
  /\ UNCHANGED <<ev_pc, ev_members, ev_opened, kernel_fds, handles>>
  /\ UNCHANGED <<event, event_read, data, last_op, metrics, data_ops>>
  /\ UNCHANGED <<hist_vars, sink_vars, contract_vars, profile_vars, json_vars>>

\* LinuxEvents::enable_events: enable_event on _fd1 of every member
EnableEvents(oks) == MembersCalled("enable_event", oks)

\* LinuxEvents::get_snapshot: read_event on _fd1 of every member
GetSnapshot(oks) == MembersCalled("read_event", oks)

\* The handle a close of descriptor fd closes.
CloseHandle(hs, fd) ==
  [h \in DOMAIN hs |->
     IF hs[h].fd = fd /\ hs[h].open
     THEN [hs[h] EXCEPT !.closes = @ + 1, !.open = FALSE] ELSE hs[h]]

\* ~LinuxEvents destroys the members, the last one first.  ~LinuxEvent
\* calls disable_event on _fd1 whatever _num_events is, then close_event
\* on the descriptors of its events: [exited, bad, fds, hs].
RECURSIVE DestroyMembers(_, _, _, _, _)
DestroyMembers(k, fds, hs, oks_disable, oks_close) ==
  IF k = 0 THEN [exited |-> FALSE, bad |-> {}, fds |-> fds, hs |-> hs]
  ELSE LET fd == ev_members[k].fd1
           stop(call) == [exited |-> TRUE, fds |-> fds, hs |-> hs,
                          bad |-> IF fd \in fds THEN {}
                                  ELSE {[call |-> call, member |-> k, fd |-> fd]}]
       IN IF fd \notin fds \/ ~oks_disable[k] THEN stop("disable_event")
          ELSE IF ev_members[k].num_events = 0
          THEN DestroyMembers(k - 1, fds, hs, oks_disable, oks_close)
          ELSE IF ~oks_close[k] THEN stop("close_event")
          ELSE DestroyMembers(k - 1, fds \ {fd}, CloseHandle(hs, fd),
                              oks_disable, oks_close)

DestroyEvents(oks_disable, oks_close) ==
  /\ process = "running"
  /\ ev_pc = "ready"
  /\ LET r == DestroyMembers(Len(ev_members), kernel_fds, handles,
                             oks_disable, oks_close) IN
       /\ process' = IF r.exited THEN "exited" ELSE "running"
       /\ ev_pc' = IF r.exited THEN ev_pc ELSE "destroyed"
       /\ bad_calls' = bad_calls \cup r.bad
       /\ kernel_fds' = r.fds
       /\ handles' = r.hs
  /\ UNCHANGED <<ev_members, ev_opened>>
  /\ UNCHANGED <<event, event_read, data, last_op, metrics, data_ops>>
  /\ UNCHANGED <<hist_vars, sink_vars, contract_vars, profile_vars, json_vars>>

(***************************************************************************)
(* linux/counter.hpp: LinuxEventsData.  Its fields are uint64_t, its       *)
(* derived metrics are double.  A double is modelled as NaN, Inf, NegInf   *)
(* or a finite value num/den * 10^(9*e9), num and den integers, den > 0.   *)
(***************************************************************************)
MaxDataOps == 2     \* operators applied to one LinuxEventsData explored

\* The snapshots used as right-hand sides: one counter set, the rest zero.
Snapshots ==
  {[f \in Fields |-> IF f = g THEN v ELSE 0] : g \in Fields, v \in {1, 2}}

\* uint64_t addition and subtraction
Wrap(n) == n % Pow2(counter_bits)

\* LinuxEventsData::operator+=
DataPlusEq(lhs, rhs) == [f \in Fields |-> Wrap(lhs[f] + rhs[f])]

\* LinuxEventsData::operator-=
DataMinusEq(lhs, rhs) == [f \in Fields |-> Wrap(lhs[f] - rhs[f])]

NaN == [kind |-> "nan", num |-> 0, den |-> 1, e9 |-> 0]
Inf == [kind |-> "inf", num |-> 0, den |-> 1, e9 |-> 0]
NegInf == [kind |-> "-inf", num |-> 0, den |-> 1, e9 |-> 0]

\* static_cast<double>(n)
ToDouble(n) == [kind |-> "finite", num |-> n, den |-> 1, e9 |-> 0]

\* the literal 1'000'000'000.0
nanos_per_second == [kind |-> "finite", num |-> 1, den |-> 1, e9 |-> 1]

\* x / y in double, IEEE 754
DoubleDiv(x, y) ==
  IF x.kind = "nan" \/ y.kind = "nan" THEN NaN
  ELSE IF x.kind # "finite"
       THEN IF y.kind # "finite" THEN NaN
            ELSE IF (x.kind = "inf") = (y.num >= 0) THEN Inf ELSE NegInf
  ELSE IF y.kind # "finite" THEN ToDouble(0)
  ELSE IF y.num = 0
       THEN IF x.num = 0 THEN NaN
            ELSE IF x.num > 0 THEN Inf ELSE NegInf
  ELSE IF y.num > 0
       THEN [kind |-> "finite", num |-> x.num * y.den, den |-> x.den * y.num,
             e9 |-> IF x.num = 0 THEN 0 ELSE x.e9 - y.e9]
       ELSE [kind |-> "finite", num |-> (0 - x.num) * y.den,
             den |-> x.den * (0 - y.num),
             e9 |-> IF x.num = 0 THEN 0 ELSE x.e9 - y.e9]

\* 1.0 - x in double, for x = num/den (e9 = 0: a ratio of two counters)
OneMinus(x) ==
  IF x.kind = "nan" THEN NaN
  ELSE IF x.kind = "inf" THEN NegInf
  ELSE IF x.kind = "-inf" THEN Inf
  ELSE [kind |-> "finite", num |-> x.den - x.num, den |-> x.den, e9 |-> 0]

\* LinuxEventsData::get_cpu_seconds
get_cpu_seconds(d) ==
  DoubleDiv(ToDouble(d["sw_cpu_clock"]), nanos_per_second)

\* LinuxEventsData::get_task_idle_pct
get_task_idle_pct(d) ==
  OneMinus(DoubleDiv(ToDouble(d["sw_task_clock"]), ToDouble(d["sw_cpu_clock"])))

\* LinuxEventsData::get_page_fault_major_per_sec
get_page_fault_major_per_sec(d) ==
  DoubleDiv(ToDouble(d["sw_page_faults_maj"]), get_cpu_seconds(d))

\* LinuxEventsData::get_cycles_per_instr
get_cycles_per_instr(d) ==
  DoubleDiv(ToDouble(d["hw_cpu_cycles"]), ToDouble(d["hw_instructions"]))

\* LinuxEventsData::get_issue_stall_pct
get_issue_stall_pct(d) ==
  DoubleDiv(ToDouble(d["hw_stalled_cycles_frontend"]), ToDouble(d["hw_cpu_cycles"]))

\* LinuxEventsData::get_retire_stall_pct
get_retire_stall_pct(d) ==
  DoubleDiv(ToDouble(d["hw_stalled_cycles_backend"]), ToDouble(d["hw_cpu_cycles"]))

\* LinuxEventsData::get_cache_miss_pct
get_cache_miss_pct(d) ==
  DoubleDiv(ToDouble(d["hw_cache_misses"]), ToDouble(d["hw_cache_references"]))

\* LinuxEventsData::get_branch_miss_pct
get_branch_miss_pct(d) ==
  DoubleDiv(ToDouble(d["hw_branch_misses"]), ToDouble(d["hw_branch_instructions"]))

\* data += rhs, data -= rhs
DataApply(op, rhs) ==
  /\ process = "running"
  /\ data_ops < MaxDataOps
  /\ data_ops' = data_ops + 1
  /\ data' = IF op = "+=" THEN DataPlusEq(data, rhs) ELSE DataMinusEq(data, rhs)
  /\ last_op' = [op |-> op, lhs |-> data, rhs |-> rhs]
  /\ metrics' = [computed |-> FALSE]
  /\ UNCHANGED <<process, event, event_read>>
  /\ UNCHANGED <<hist_vars, sink_vars, contract_vars, profile_vars, json_vars,
                 events_vars>>

\* LinuxEventsData::write_data: every derived metric of data is computed.
write_data ==
  /\ process = "running"
  /\ ~metrics.computed
  /\ metrics' =
       [computed |-> TRUE,
        cpu_seconds |-> get_cpu_seconds(data),
        task_idle_pct |-> get_task_idle_pct(data),
        page_fault_major_per_sec |-> get_page_fault_major_per_sec(data),
        cycles_per_instr |-> get_cycles_per_instr(data),
        issue_stall_pct |-> get_issue_stall_pct(data),
        retire_stall_pct |-> get_retire_stall_pct(data),
        cache_miss_pct |-> get_cache_miss_pct(data),
        branch_miss_pct |-> get_branch_miss_pct(data)]
  /\ UNCHANGED <<process, event, event_read, data, last_op, data_ops>>
  /\ UNCHANGED <<hist_vars, sink_vars, contract_vars, profile_vars, json_vars,
                 events_vars>>

(***************************************************************************)
(* record.hpp: Record, and sink.hpp: Json::write_record                    *)
(*                                                                         *)
(* Text is a sequence of characters.  A Record is an unordered_map from    *)
(* string to RecordValue; rec_fields keeps its fields in the order of      *)
(* their insertion, which the map itself does not.                         *)
(***************************************************************************)
MaxFields == 2    \* fields inserted into the Record

DigitChars == <<"0", "1", "2", "3", "4", "5", "6", "7", "8", "9">>

RECURSIVE Digits(_)
Digits(n) ==
  IF n < 10 THEN <<DigitChars[n + 1]>>
  ELSE Digits(n \div 10) \o <<DigitChars[(n % 10) + 1]>>

\* RecordValue: one record shape for the five types.  A Real is kept in
\* tenths (15 is 1.5), a String as its characters.
BoolValue(b) == [type |-> "Bool", b |-> b, i |-> 0, s |-> <<>>]
IntValue(i) == [type |-> "Int", b |-> FALSE, i |-> i, s |-> <<>>]
RealValue(tenths) == [type |-> "Real", b |-> FALSE, i |-> tenths, s |-> <<>>]
StringValue(s) == [type |-> "String", b |-> FALSE, i |-> 0, s |-> s]
TimestampValue(ns) == [type |-> "Timestamp", b |-> FALSE, i |-> ns, s |-> <<>>]

\* The keys and values the Record is built from: no control characters.
RecordKeys == {<<"a">>, <<"b">>}
RecordValues ==
  {BoolValue(TRUE), IntValue(7), IntValue(0 - 1), RealValue(15), RealValue(10),
   StringValue(<<"x">>), TimestampValue(0)}

\* format("{}", bool), format("{}", int64_t), format("{}", double)
FormatBool(b) == IF b THEN <<"t", "r", "u", "e">> ELSE <<"f", "a", "l", "s", "e">>
FormatInt(i) == IF i < 0 THEN <<"-">> \o Digits(0 - i) ELSE Digits(i)
FormatReal(tenths) ==
  IF tenths % 10 = 0 THEN Digits(tenths \div 10)
  ELSE Digits(tenths \div 10) \o <<".">> \o Digits(tenths % 10)

\* format_timestamp of the epoch: "{0:%FT%T}.{1:09d}{0:%zZ}"
format_timestamp(ns) ==
  <<"1", "9", "7", "0", "-", "0", "1", "-", "0", "1", "T", "0", "0",
   ":", "0", "0", ":", "0", "0", ".", "0", "0", "0", "0", "0", "0", "0",
   "0", "0", "+", "0", "0", "0", "0", "Z">>

\* One field as Json::write_record formats it: "key":value, with the value
\* between quotes for a String and a Timestamp.
Quoted(s) == <<"\"">> \o s \o <<"\"">>

FieldText(key, value) ==
  Quoted(key) \o <<":">> \o
    (CASE value.type = "Bool" -> FormatBool(value.b)
       [] value.type = "Int" -> FormatInt(value.i)
       [] value.type = "Real" -> FormatReal(value.i)
       [] value.type = "String" -> Quoted(value.s)
       [] value.type = "Timestamp" -> Quoted(format_timestamp(value.i)))

\* The orders in which a range-for can visit the n elements of an
\* unordered_map: the order is unspecified.
IterationOrders(n) ==
  {p \in [1..n -> 1..n] : \A i, j \in 1..n : i # j => p[i] # p[j]}

\* The loop of Json::write_record over the fields in the order given.
RECURSIVE JoinFields(_, _, _)
JoinFields(fields, order, k) ==
  IF k > Len(fields) THEN <<>>
  ELSE (IF k = 1 THEN <<>> ELSE <<",">>) \o
       FieldText(fields[order[k]].key, fields[order[k]].value) \o
       JoinFields(fields, order, k + 1)

\* Json::write_record: the characters written for the record
write_record_text(fields, order) == JoinFields(fields, order, 1)

\* Csv::Csv(fields, filepath, separator, string_quote_char) with its defaults
DefaultCsv == [fields |-> <<>>, separator |-> ",", string_quote_char |-> "\""]

\* The projections a Csv sink is created with: lists of distinct keys, one
\* of them a key no Record holds.
CsvKeys == RecordKeys \cup {<<"c">>}
Projections ==
  {<<>>} \cup {<<k>> : k \in CsvKeys} \cup
  {p \in {<<k1, k2>> : k1 \in CsvKeys, k2 \in CsvKeys} : p[1] # p[2]}
CsvConfigs ==
  [fields : Projections, separator : {",", ";"}, string_quote_char : {"\"", "'"}]

\* No Record yet; the Csv sink exists.
RecordIdle ==
  /\ rec_fields = <<>>
  /\ json_state = "building"
  /\ json_order = <<>>
  /\ json_text = <<>>
  /\ csv_text = <<>>

JsonIdle ==
  /\ RecordIdle
  /\ csv = DefaultCsv

\* Record::insert of a key the record does not hold yet
RecordInsert(key, value) ==
  /\ json_state = "building"
  /\ Len(rec_fields) < MaxFields
  /\ \A k \in DOMAIN rec_fields : rec_fields[k].key # key
  /\ rec_fields' = Append(rec_fields, [key |-> key, value |-> value])
  /\ UNCHANGED <<json_state, json_order, json_text, csv, csv_text>>
  /\ UNCHANGED <<hist_vars, sink_vars, contract_vars, profile_vars, counter_vars,
                 events_vars>>

\* Json::write_record
JsonWriteRecord ==
  /\ json_state = "building"
  /\ \E order \in IterationOrders(Len(rec_fields)) :
       /\ json_order' = order
       /\ json_text' = write_record_text(rec_fields, order)
  /\ json_state' = "written"
  /\ UNCHANGED <<rec_fields, csv, csv_text>>
  /\ UNCHANGED <<hist_vars, sink_vars, contract_vars, profile_vars, counter_vars,
                 events_vars>>

\* Csv::write_record: the same loop over the Record as Json::write_record;
\* _fields, _separator and _string_quote_char are not read.
CsvWriteRecord ==
  /\ json_state = "building"
  /\ \E order \in IterationOrders(Len(rec_fields)) :
       /\ json_order' = order
       /\ csv_text' = JoinFields(rec_fields, order, 1)
  /\ json_state' = "written"
  /\ UNCHANGED <<rec_fields, json_text, csv>>
  /\ UNCHANGED <<hist_vars, sink_vars, contract_vars, profile_vars, counter_vars,
                 events_vars>>

(***************************************************************************)
(* A JSON parser (RFC 8259) for the texts above: a document is one value;  *)
(* an object has string names and, here, scalar member values.             *)
(***************************************************************************)
NoParse == [ok |-> FALSE, next |-> 0, jtype |-> "none", b |-> FALSE, i |-> 0, s |-> <<>>]

\* the index of the quotation mark that closes a string whose content
\* starts at j, 0 when there is none; a reverse solidus escapes a character
RECURSIVE StringEnd(_, _)
StringEnd(text, j) ==
  IF j > Len(text) THEN 0
  ELSE IF text[j] = "\\" THEN StringEnd(text, j + 2)
  ELSE IF text[j] = "\"" THEN j
  ELSE StringEnd(text, j + 1)

ParseString(text, i) ==
  IF i > Len(text) \/ text[i] # "\"" THEN NoParse
  ELSE LET e == StringEnd(text, i + 1) IN
       IF e = 0 THEN NoParse
       ELSE [NoParse EXCEPT !.ok = TRUE, !.next = e + 1, !.jtype = "string",
                            !.s = SubSeq(text, i + 1, e - 1)]

IsDigit(text, i) == i <= Len(text) /\ \E d \in DOMAIN DigitChars : DigitChars[d] = text[i]
DigitOf(c) == (CHOOSE d \in DOMAIN DigitChars : DigitChars[d] = c) - 1

\* the digits from i on: [next, value]
RECURSIVE ParseDigits(_, _, _)
ParseDigits(text, i, acc) ==
  IF IsDigit(text, i) THEN ParseDigits(text, i + 1, 10 * acc + DigitOf(text[i]))
  ELSE [next |-> i, value |-> acc]

\* number = [ minus ] int [ frac ], its value in tenths; the texts above
\* have one fraction digit at most
ParseNumber(text, i) ==
  LET negative == i <= Len(text) /\ text[i] = "-"
      start == IF negative THEN i + 1 ELSE i
      int == ParseDigits(text, start, 0)
      has_frac == int.next <= Len(text) /\ text[int.next] = "." /\ IsDigit(text, int.next + 1)
      frac == ParseDigits(text, int.next + 1, 0)
      tenths == 10 * int.value + (IF has_frac THEN frac.value ELSE 0)
  IN IF ~IsDigit(text, start) THEN NoParse
     ELSE [NoParse EXCEPT !.ok = TRUE,
                          !.next = IF has_frac THEN frac.next ELSE int.next,
                          !.jtype = "number",
                          !.i = IF negative THEN 0 - tenths ELSE tenths]

ParseLiteral(text, i) ==
  IF SubSeq(text, i, Min(Len(text), i + 3)) = <<"t", "r", "u", "e">>
  THEN [NoParse EXCEPT !.ok = TRUE, !.next = i + 4, !.jtype = "bool", !.b = TRUE]
  ELSE IF SubSeq(text, i, Min(Len(text), i + 4)) = <<"f", "a", "l", "s", "e">>
  THEN [NoParse EXCEPT !.ok = TRUE, !.next = i + 5, !.jtype = "bool", !.b = FALSE]
  ELSE NoParse

ParseScalar(text, i) ==
  IF i > Len(text) THEN NoParse
  ELSE IF text[i] = "\"" THEN ParseString(text, i)
  ELSE IF text[i] \in {"t", "f"} THEN ParseLiteral(text, i)
  ELSE ParseNumber(text, i)

\* member *( "," member ) "}" from i on: [ok, next, members]
RECURSIVE ParseMembers(_, _, _)
ParseMembers(text, i, members) ==
  LET name == ParseString(text, i)
      colon == name.ok /\ name.next <= Len(text) /\ text[name.next] = ":"
      value == ParseScalar(text, name.next + 1)
      all == Append(members, [key |-> name.s, value |-> value])
  IN IF ~colon \/ ~value.ok \/ value.next > Len(text)
     THEN [ok |-> FALSE, next |-> 0, members |-> <<>>]
     ELSE IF text[value.next] = "," THEN ParseMembers(text, value.next + 1, all)
     ELSE IF text[value.next] = "}"
     THEN [ok |-> TRUE, next |-> value.next + 1, members |-> all]
     ELSE [ok |-> FALSE, next |-> 0, members |-> <<>>]

\* The whole text as one JSON document: ok when it is one object and
\* nothing else, with the members of the object in the order of the text.
parse_json(text) ==
  IF Len(text) < 2 \/ text[1] # "{"
  THEN [ok |-> FALSE, next |-> 0, members |-> <<>>]
  ELSE LET object == IF text[2] = "}"
                     THEN [ok |-> TRUE, next |-> 3, members |-> <<>>]
                     ELSE ParseMembers(text, 2, <<>>)
       IN [object EXCEPT !.ok = object.ok /\ object.next = Len(text) + 1]

\* a RecordValue and a JSON value that stand for the same thing
Equivalent(value, parsed) ==
  CASE value.type = "Bool" -> parsed.jtype = "bool" /\ parsed.b = value.b
    [] value.type = "Int" -> parsed.jtype = "number" /\ parsed.i = 10 * value.i
    [] value.type = "Real" -> parsed.jtype = "number" /\ parsed.i = value.i
    [] value.type = "String" -> parsed.jtype = "string" /\ parsed.s = value.s
    [] value.type = "Timestamp" ->
         parsed.jtype = "string" /\ parsed.s = format_timestamp(value.i)

InitHist == HistInit /\ SinkIdle /\ ContractIdle /\ CounterIdle /\ EventsIdle /\ JsonIdle /\ ProfileIdle /\ build_mode = "profile"

NextHist ==
  \/ \E o \in Observations : add_observation(o)
  \/ \E op \in ReadOps : \E arg \in ReadArgs(op) : Read(op, arg)

SpecHist == InitHist /\ [][NextHist]_vars

\* C1: at every point between operations the bucket counts add up to the
\* number of observations submitted and there are at most max_buckets
\* buckets.
C1_CountAndBucketBound ==
  hist_alive => (SumCounts(buckets) = added /\ Len(buckets) <= max_buckets)

\* buckets are in ascending order of min
SortedByMin(bs) == \A i \in 1..(Len(bs) - 1) : get_min(bs[i]) <= get_min(bs[i + 1])

\* C21: whenever compact_buckets has completed (_compacted is set), the
\* buckets are sorted by ascending min and there are strictly fewer than
\* max_buckets of them.
C21_CompactedSortedAndBelowMax ==
  (hist_alive /\ compacted) =>
     (SortedByMin(buckets) /\ Len(buckets) < max_buckets)

\* C37: whenever compact_buckets has completed, every bucket starts above
\* the end of the bucket before it: the min of the later one is strictly
\* greater than the max of the earlier one.
C37_CompactedBucketsDisjoint ==
  (hist_alive /\ compacted) =>
     \A i \in 1..(Len(buckets) - 1) : get_min(buckets[i + 1]) > get_max(buckets[i])

\* a compaction that merged observations into one of several buckets
C37_Witness ==
  /\ hist_alive /\ compacted /\ hist_log.compactions >= 1
  /\ Len(buckets) >= 2
  /\ \E i \in DOMAIN buckets : get_count(buckets[i]) >= 2

(***************************************************************************)
(* The histogram next to a second one that gets the same observations and  *)
(* is never read.                                                          *)
(***************************************************************************)
InitHistPair ==
  /\ HistogramConstructed /\ quiet = [NoQuiet EXCEPT !.tracked = TRUE]
  /\ quartiles = NoQuartiles
  /\ SinkIdle /\ ContractIdle /\ CounterIdle /\ EventsIdle /\ JsonIdle /\ ProfileIdle
  /\ build_mode = "profile"

NextHistPair ==
  \/ \E o \in Observations : add_observation(o)
  \/ \E arg \in ReadArgs("get_by_rank") : Read("get_by_rank", arg)

SpecHistPair == InitHistPair /\ [][NextHistPair]_vars

\* get_by_rank for every rank, on the buckets one compaction left
RanksOf(bs, n) == [rank \in 1..n |-> get_by_rank(bs, n, rank)]

\* the buckets a read would find: compact_buckets has run and returned
Compacted(bs, n, is_compacted) ==
  {r.bs : r \in {c \in CompactResults(bs, n, is_compacted) : c.ok}}

\* C38: get_by_rank is monotone in the rank, its value at rank 1 is the
\* smallest observation submitted and its value at rank count the largest.
C38_ByRankMonotoneBetweenExtremes ==
  (hist_alive /\ quiet.tracked /\ observations >= 1) =>
    \A bs \in Compacted(buckets, observations, compacted) :
      LET v == RanksOf(bs, observations) IN
        /\ \A r \in DOMAIN v : v[r] # NoValue
        /\ \A r1, r2 \in DOMAIN v : r1 <= r2 => v[r1] <= v[r2]
        /\ v[1] = quiet.lowest
        /\ v[observations] = quiet.highest

\* C40: the values get_by_rank returns for the ranks 1..count after the
\* adds are values it can return for the same observations added with no
\* read operation in between.
C40_ReadsLeaveRanksUnchanged ==
  (hist_alive /\ quiet.tracked /\ quiet.alive /\ observations >= 1) =>
    \A bs \in Compacted(buckets, observations, compacted) :
      \E qs \in Compacted(quiet.buckets, observations, quiet.compacted) :
        RanksOf(bs, observations) = RanksOf(qs, observations)

(***************************************************************************)
(* The quartile ranks as a function of the observation count, for every    *)
(* count a rank_t can hold.                                                *)
(***************************************************************************)
InitQuartiles ==
  /\ HistogramConstructed /\ quiet = NoQuiet
  /\ quartiles \in {[NoQuartiles EXCEPT !.n = n] : n \in RankRange}
  /\ SinkIdle /\ ContractIdle /\ CounterIdle /\ EventsIdle /\ JsonIdle /\ ProfileIdle
  /\ build_mode = "profile"

SpecQuartiles == InitQuartiles /\ [][QuartileRanks]_vars

\* C39: for a count of four or more the quartile ranks are in order and
\* within 1..count, which is what get_by_rank asserts of its rank.
C39_QuartileRanksInRange ==
  (quartiles.done /\ quartiles.n >= 4) =>
     /\ 1 <= quartiles.q1
     /\ quartiles.q1 <= quartiles.q2
     /\ quartiles.q2 <= quartiles.q3
     /\ quartiles.q3 <= quartiles.n

\* C22: when compact_buckets has run twice or more with no bucket added in
\* between, the buckets are what the first of these runs left: the same
\* min, span and count, in the same order.
C22_CompactionIsFixedPoint ==
  (hist_alive /\ hist_log.compactions >= 2) => buckets = hist_log.after_first

\* a second compaction of a histogram of several buckets, one of them merged
C22_Witness ==
  /\ hist_alive /\ hist_log.compactions >= 2
  /\ Len(buckets) >= 2
  /\ \E i \in DOMAIN buckets : buckets[i].span > 0

\* the last operation was the read op, and it returned
Returned(op) == hist_alive /\ hist_log.op = op /\ hist_log.result.defined

\* by_rank of the histogram as it stands
by_rank(rank) == get_by_rank(buckets, observations, rank)

\* C23 as stated: with fewer than 4 observations get_trimedian returns the
\* observation at rank 1 for one observation, at rank 2 for two and at rank
\* 2 for three.
C23_TrimeanOfFewAsStated ==
  (Returned("get_trimedian") /\ observations \in 1..3) =>
     hist_log.result.value = by_rank(IF observations = 1 THEN 1 ELSE 2)

\* C23 amended: with fewer than 4 observations get_trimedian returns the
\* observation at rank 1 for one or two observations and at rank 2 for
\* three.
C23_TrimeanOfFew ==
  (Returned("get_trimedian") /\ observations \in 1..3) =>
     hist_log.result.value = by_rank(IF observations <= 2 THEN 1 ELSE 2)

\* get_trimedian has returned for two observations that differ
C23_Witness ==
  /\ Returned("get_trimedian") /\ observations = 2
  /\ by_rank(1) # by_rank(2)

\* C24: with exactly 2 observations get_trimedian returns by_rank(1) and
\* get_interquantile_range returns by_rank(2) - by_rank(1).
C24_TwoObservations ==
  observations = 2 =>
    /\ Returned("get_trimedian") => hist_log.result.value = by_rank(1)
    /\ Returned("get_interquantile_range") =>
          hist_log.result.value = by_rank(2) - by_rank(1)

\* get_interquantile_range has returned for two observations that differ
C24_Witness ==
  /\ Returned("get_interquantile_range") /\ observations = 2
  /\ by_rank(2) > by_rank(1)

\* C25: with 0 observations get_trimedian, get_interquantile_range and
\* get_standard_deviation return 0, get_sparkline returns the empty string
\* for every width and have_outliers returns (false, false).
C25_EmptyHistogram ==
  observations = 0 =>
    /\ \A op \in {"get_trimedian", "get_interquantile_range",
                   "get_standard_deviation"} :
          hist_log.op = op => (hist_alive /\ hist_log.result.defined /\
                               hist_log.result.value = 0)
    /\ hist_log.op = "get_sparkline" =>
          (hist_alive /\ hist_log.result.defined /\ hist_log.result.text = <<>>)
    /\ hist_log.op = "have_outliers" =>
          (hist_alive /\ hist_log.result.defined /\
           ~hist_log.result.low /\ ~hist_log.result.high)

\* get_sparkline has returned for an empty histogram and a width above 1
C25_Witness ==
  /\ observations = 0 /\ Returned("get_sparkline")
  /\ hist_log.arg > 1

\* the observations by_rank gives, rank by rank, that are at or below
\* trimedian - 6 sigma, and those at or above trimedian + 6 sigma
LowValues ==
  {r \in 1..observations : Scaled(by_rank(r)) <= low_6sigma(buckets, observations)}
HighValues ==
  {r \in 1..observations : Scaled(by_rank(r)) >= high_6sigma(buckets, observations)}

\* C26: have_outliers returns (low, high) with low true exactly when the
\* observations at or below trimedian - 6 sigma, counted by the rank walk
\* of get_by_rank, are more than expected_outliers, and high true exactly
\* when those at or above trimedian + 6 sigma are.
C26_OutliersAreExcessOverExpected ==
  (Returned("have_outliers") /\ SumCounts(buckets) = observations) =>
    /\ hist_log.result.low <=>
          (Cardinality(LowValues) > expected_outliers(observations))
    /\ hist_log.result.high <=>
          (Cardinality(HighValues) > expected_outliers(observations))

\* the glyphs of the sparkline
Glyphs == {steps[i] : i \in DOMAIN steps}

\* C27: for a histogram that is not empty and a width of 1 or more,
\* get_sparkline returns with every column index below the width, and its
\* result has exactly width characters, each of them one of the eight
\* glyphs.
C27_SparklineHasWidthGlyphs ==
  (hist_log.op = "get_sparkline" /\ observations > 0) =>
     /\ hist_alive /\ hist_log.result.defined
     /\ Len(hist_log.result.text) = hist_log.arg
     /\ \A i \in DOMAIN hist_log.result.text : hist_log.result.text[i] \in Glyphs

(***************************************************************************)
(* One Record, built field by field and written once by the JSON sink.     *)
(***************************************************************************)
InitJson ==
  /\ HistInit /\ SinkIdle /\ ContractIdle /\ CounterIdle /\ EventsIdle /\ JsonIdle /\ ProfileIdle
  /\ build_mode = "profile"

NextJson ==
  \/ \E key \in RecordKeys, value \in RecordValues : RecordInsert(key, value)
  \/ JsonWriteRecord

SpecJson == InitJson /\ [][NextJson]_vars

\* the keys in the order of their insertion, and in the order of the output
InsertedKeys == [k \in DOMAIN rec_fields |-> rec_fields[k].key]
OutputKeys == [k \in DOMAIN json_order |-> rec_fields[json_order[k]].key]

\* C29: the output of the sink for a record lists the keys of the record in
\* the order in which they were inserted.
C29_OutputKeepsInsertionOrder ==
  json_state = "written" => OutputKeys = InsertedKeys

\* C30: parsing what the JSON sink wrote for a record gives the keys of the
\* record, in insertion order, each with a value equivalent to its own.
C30_JsonRoundTrip ==
  json_state = "written" =>
    LET parsed == parse_json(json_text) IN
      /\ parsed.ok
      /\ Len(parsed.members) = Len(rec_fields)
      /\ \A k \in DOMAIN rec_fields :
           /\ parsed.members[k].key = rec_fields[k].key
           /\ Equivalent(rec_fields[k].value, parsed.members[k].value)

(***************************************************************************)
(* One Record, built field by field and written once by a Csv sink that    *)
(* was created with some projection, separator and quote character.        *)
(***************************************************************************)
InitCsv ==
  /\ HistInit /\ SinkIdle /\ ContractIdle /\ CounterIdle /\ EventsIdle /\ ProfileIdle
  /\ build_mode = "profile"
  /\ RecordIdle
  /\ csv \in CsvConfigs

NextCsv ==
  \/ \E key \in RecordKeys, value \in RecordValues : RecordInsert(key, value)
  \/ CsvWriteRecord

SpecCsv == InitCsv /\ [][NextCsv]_vars

\* the texts a delimited-text field may hold for a value: a string between
\* the quote characters, a timestamp with or without them, the rest bare
CsvValueTexts(value) ==
  LET q == <<csv.string_quote_char>> IN
  CASE value.type = "Bool" -> {FormatBool(value.b)}
    [] value.type = "Int" -> {FormatInt(value.i)}
    [] value.type = "Real" -> {FormatReal(value.i)}
    [] value.type = "String" -> {q \o value.s \o q}
    [] value.type = "Timestamp" ->
         {format_timestamp(value.i), q \o format_timestamp(value.i) \o q}

\* the texts of the field of a projected key: empty when the record has not
\* the key
CsvFieldTexts(key) ==
  IF \E k \in DOMAIN rec_fields : rec_fields[k].key = key
  THEN CsvValueTexts(rec_fields[CHOOSE k \in DOMAIN rec_fields : rec_fields[k].key = key].value)
  ELSE {<<>>}

\* the rows for the projected keys from the k-th on
RECURSIVE CsvRows(_)
CsvRows(k) ==
  IF k > Len(csv.fields) THEN {<<>>}
  ELSE {(IF k = 1 THEN <<>> ELSE <<csv.separator>>) \o field \o rest :
          field \in CsvFieldTexts(csv.fields[k]), rest \in CsvRows(k + 1)}

\* C31: the delimited-text sink writes for a record one row (with or without
\* a line end) that has one field per key of the projection, in the order of
\* the projection, separated by the configured separator, strings between
\* the configured quote characters, empty for a key the record has not.
C31_CsvRowFollowsProjection ==
  json_state = "written" =>
    \E row \in CsvRows(1) : csv_text \in {row, row \o <<"\n">>}

(***************************************************************************)
(* The sink pipeline on its own: client threads register sinks and submit  *)
(* records, worker tasks run, and g_sink_manager is destroyed.             *)
(***************************************************************************)
InitSink == HistInit /\ SinkIdle /\ ContractIdle /\ CounterIdle /\ EventsIdle /\ JsonIdle /\ ProfileIdle /\ build_mode = "profile"

NextSink ==
  \/ \E s \in SinkIds : add_sink(s)
  \/ \E t \in Threads : WriteRecordCall(t)
  \/ \E t \in Threads : WriteRecordCallOnce(t)
  \/ \E t \in Threads : WriteRecordLocked(t)
  \/ \E id \in DOMAIN tasks : TaskRun(id)
  \/ \E id \in DOMAIN tasks : TaskReturn(id)
  \/ DestructorLock
  \/ DestructorWait
  \/ DestructorReturn

SpecSink == InitSink /\ [][NextSink]_vars

\* Every launched task has a thread of its own and the thread that runs
\* ~SinkManager keeps running: each of their steps is taken once it stays
\* possible.
TaskIds == 1..(MaxRecords * (MaxSinks + 1))

SinkFairness ==
  /\ \A id \in TaskIds : WF_vars(TaskRun(id)) /\ WF_vars(TaskReturn(id))
  /\ WF_vars(DestructorWait)
  /\ WF_vars(DestructorReturn)

SpecSinkFair == SpecSink /\ SinkFairness

Occurrences(seq, x) == Cardinality({i \in DOMAIN seq : seq[i] = x})
RegisteredSinks == {sinks[i] : i \in DOMAIN sinks}

\* C2: when ~SinkManager has returned, every task launched by a
\* write_record call has finished.
C2_DestructorAwaitsTasks ==
  manager = "destroyed" => \A id \in DOMAIN tasks : tasks[id].state = "ready"

\* C2 witness: the destructor has returned after waiting for futures.
C2_Witness == manager = "destroyed" /\ awaited >= 2

\* C32: ~SinkManager has no timeout and does not deadlock with the tasks it
\* waits for: it does not leave a future whose task is still outstanding
\* behind it, and once it has started it returns, unless a write never
\* returns because it ended the process.
C32_ShutdownWaitsAndReturns ==
  /\ [][(manager = "destroying" /\ workers' # workers)
          => tasks[Head(workers)].state = "ready"]_vars
  /\ (manager = "destroying") ~> (manager \in {"destroyed", "crashed"})

\* C32 witness: the destructor is waiting for a write that is outstanding.
C32_Witness ==
  /\ manager = "destroying"
  /\ workers # <<>>
  /\ tasks[Head(workers)].state = "writing"

\* C3: with the sinks registered before the first submission, when the
\* destructor has returned every sink holds every submitted record exactly
\* once (N records, S sinks: N*S writes).
C3_EveryRecordOncePerSink ==
  (manager = "destroyed" /\ ~late_add /\ sinks # <<>>) =>
     \A s \in RegisteredSinks :
        /\ Len(written[s]) = Len(submitted)
        /\ \A r \in 1..Len(submitted) : Occurrences(written[s], r) = 1

\* C3 witness: two sinks, two records, some future drained by a later
\* submission and some awaited by the destructor.
C3_Witness ==
  /\ manager = "destroyed" /\ ~late_add
  /\ Len(sinks) = 2 /\ Len(submitted) = 2
  /\ awaited >= 1 /\ awaited < Len(tasks)

\* C14: a first submission that finds no sink registered installs the
\* default sink, exactly once whatever the number of submitting threads; a
\* sink registered before the first submission keeps the default sink out.
C14_DefaultSinkInstalledOnce ==
  /\ Occurrences(sinks, DefaultSink) <= 1
  /\ (/\ submitted # <<>>
      /\ \A t \in Threads : spc[t] # "call_once"
      /\ RegisteredSinks \cap SinkIds = {})
       => DefaultSink \in RegisteredSinks
  /\ (~late_add /\ RegisteredSinks \cap SinkIds # {})
       => DefaultSink \notin RegisteredSinks

\* C15: every read and every modification of the sink list and of the
\* worker list happens with the manager's mutex held.
C15_ListsAccessedUnderMutex == unlocked = {}

\* C16: two write tasks never are inside the same sink's write at the same
\* time, so every record's output is one uninterrupted unit.
C16_SinkWritesDoNotOverlap ==
  \A s \in DOMAIN written : Cardinality(Writing(s)) <= 1

\* C35: the reference to its sink that a launched task captured stays
\* valid until the task uses it, whatever add_sink calls come in between.
C35_AddSinkKeepsTaskReferences ==
  \A id \in DOMAIN tasks : tasks[id].state = "running" => tasks[id].ref # 0

\* the place of record r in the output of sink s, 0 when it is not there
PlaceIn(s, r) ==
  IF \E i \in DOMAIN written[s] : written[s][i] = r
  THEN CHOOSE i \in DOMAIN written[s] : written[s][i] = r
  ELSE 0

\* C36: of two records submitted by the same thread one after the other,
\* a sink that has written the later one has written the earlier one
\* before it.
C36_SameThreadSubmissionOrder ==
  \A s \in DOMAIN written :
    \A r1, r2 \in DOMAIN submitted :
      (r1 < r2 /\ submitter[r1] = submitter[r2] /\ PlaceIn(s, r2) # 0) =>
        (PlaceIn(s, r1) # 0 /\ PlaceIn(s, r1) < PlaceIn(s, r2))

(***************************************************************************)
(* The contract module on top of the sink pipeline: the application thread *)
(* t1 may have registered a sink before it runs its checks.                *)
(***************************************************************************)
InitContract == HistInit /\ SinkIdle /\ ContractIdle /\ CounterIdle /\ EventsIdle /\ JsonIdle /\ ProfileIdle /\ build_mode = "profile"

NextContract ==
  \/ add_sink(1)
  \/ \E k \in CheckKinds, c \in BOOLEAN, l \in Locations : Check(k, c, l)
  \/ \E k \in GuardKinds, c \in BOOLEAN, l \in Locations : GuardConstruct(k, c, l)
  \/ AppThrow
  \/ AppCatch
  \/ \E c \in BOOLEAN : GuardRelease(c)
  \/ WriteRecordCallOnce("t1")
  \/ WriteRecordLocked("t1")
  \/ Resume
  \/ \E id \in DOMAIN tasks : TaskRun(id)
  \/ \E id \in DOMAIN tasks : TaskReturn(id)

SpecContract == InitContract /\ [][NextContract]_vars


\* The record a contract operation of this kind, at this call site, is to
\* submit, field by field.
IsViolationRecord(record, kind, phase, location) ==
  /\ DOMAIN record =
       {"category", "subcategory", "message", "file", "line", "column",
        "function"}
  /\ record["category"] = "contract"
  /\ record["subcategory"] = kind
  /\ record["message"] = Message(kind, phase, location)
  /\ record["file"] = location.file
  /\ record["line"] = location.line
  /\ record["column"] = location.column
  /\ record["function"] = location.function

\* C4: a failed argument, expect or confirm submits exactly one record
\* (category contract, subcategory the check kind, the formatted message
\* and the call site) and then raises contract_violation.
C4_CheckSubmitsThenRaises ==
  /\ Len(submitted) = Len(outcomes) + (IF cpc = "run" THEN 0 ELSE 1)
  /\ \A i \in DOMAIN outcomes :
       outcomes[i].phase = "check" =>
         /\ outcomes[i].thrown = "contract_violation"
         /\ IsViolationRecord(submitted[outcomes[i].sub], outcomes[i].kind,
                              "check", outcomes[i].location)

\* C10: when a guard is released during stack unwinding and its predicate
\* is false, the violation record has been submitted and no exception
\* leaves the destructor.
C10_UnwindingViolationSwallowed ==
  \A i \in DOMAIN outcomes :
    (outcomes[i].phase = "dtor" /\ outcomes[i].unwinding) =>
       /\ outcomes[i].result = "discarded"
       /\ IsViolationRecord(submitted[outcomes[i].sub], outcomes[i].kind,
                            "dtor", outcomes[i].location)

\* Both kinds of guard have failed during unwinding, and the thread runs on.
C10_Witness ==
  /\ ~terminated
  /\ propagating = "app_error"
  /\ \A k \in GuardKinds : \E i \in DOMAIN outcomes :
       /\ outcomes[i].kind = k
       /\ outcomes[i].phase = "dtor"
       /\ outcomes[i].unwinding
       /\ outcomes[i].result = "discarded"

\* C11: when a guard is released with no unwinding in progress and its
\* predicate is false, contract_violation propagates to the enclosing code
\* and the program is not terminated.
C11_ReleaseViolationPropagates ==
  \A i \in DOMAIN outcomes :
    (outcomes[i].phase = "dtor" /\ ~outcomes[i].unwinding /\
     outcomes[i].thrown = "contract_violation") =>
       outcomes[i].result = "thrown"

(***************************************************************************)
(* The three checks under every value of g_build_mode.  contract.hpp never *)
(* reads g_build_mode.                                                     *)
(***************************************************************************)
InitModes ==
  /\ HistInit /\ SinkIdle /\ ContractIdle /\ CounterIdle /\ EventsIdle /\ JsonIdle /\ ProfileStatics
  /\ build_mode \in BuildModes

NextModes ==
  \/ add_sink(1)
  \/ \E k \in CheckKinds, c \in BOOLEAN, l \in Locations : Check(k, c, l)
  \/ WriteRecordCallOnce("t1")
  \/ WriteRecordLocked("t1")
  \/ Resume
  \/ AppCatch
  \/ \E id \in DOMAIN tasks : TaskRun(id)
  \/ \E id \in DOMAIN tasks : TaskReturn(id)

SpecModes == InitModes /\ [][NextModes]_vars

\* C12: in production mode a failed check is recorded and execution goes on
\* with no exception raised; in every other mode the violation propagates
\* (outcomes in which the pipeline accepted the record).
C12_ProductionRecordsAndContinues ==
  \A i \in DOMAIN outcomes :
    outcomes[i].thrown = "contract_violation" =>
      /\ submitted[outcomes[i].sub]["category"] = "contract"
      /\ IF build_mode = "production"
         THEN outcomes[i].result # "thrown"
         ELSE outcomes[i].result = "thrown"

\* C13: in build mode off nothing is observable: no record is submitted,
\* no exception is raised, no final aggregates are emitted and the program
\* and thread state stay as they were.
C13_OffModeIsNoOp ==
  build_mode = "off" =>
    /\ submitted = <<>>
    /\ propagating = "none"
    /\ outcomes = <<>>
    /\ emissions = <<>>
    /\ ~once_flag_create /\ ~once_flag_destroy
    /\ threads_created = 0

(***************************************************************************)
(* The scope profiler on its own, in either build mode.                    *)
(***************************************************************************)
InitProfile == HistInit /\ SinkIdle /\ ContractIdle /\ CounterIdle /\ EventsIdle /\ JsonIdle /\ ProfileIdle

NextProfile ==
  \/ \E t \in Threads, g \in Signatures : FunctionEnter(t, g)
  \/ \E t \in Threads : FunctionExitDestroy(t)
  \/ \E t \in Threads : FunctionExitObserve(t)
  \/ \E t \in Threads : FunctionExitEmit(t)
  \/ Tick

SpecProfile == InitProfile /\ [][NextProfile]_vars


\* The keys under which some scope has completed.
CompletedKeys == {k \in Keys : expected[k].function_calls > 0}

\* C28: every construction of a Thread (a step that raises
\* _threads_created from k-1 to k) gives the thread that performs it the
\* ordinal k, whatever the other threads have done before: ordinals start
\* at 1 and no two constructions receive the same one.
C28_ThreadOrdinalsCountFromOne ==
  [][threads_created' # threads_created =>
       /\ threads_created' = threads_created + 1
       /\ \E t \in Threads :
            /\ p_thread[t] = 0
            /\ p_thread'[t] = threads_created'
            /\ \A u \in Threads \ {t} : p_thread'[u] = p_thread[u] /\ p_thread'[u] < threads_created']_vars

\* three Threads have been constructed, by two threads, and the last one is alive
C28_Witness ==
  /\ threads_created = 3
  /\ \E t \in Threads : p_thread[t] = 3
  /\ \E t \in Threads : p_thread[t] \in {1, 2}

\* C6: at scope exit the exclusive delta added to the scope's aggregate is
\* its inclusive delta less the inclusive deltas of the scopes nested
\* directly in it (outer 3 ticks around inner 1 tick: outer self 2).
C6_ExclusiveIsInclusiveLessChildren ==
  build_mode = "profile" =>
    \A k \in CompletedKeys :
      /\ k \in DOMAIN profile_map
      /\ profile_map[k].linux_event_data_total = expected[k].linux_event_data_total
      /\ profile_map[k].linux_event_data_self = expected[k].linux_event_data_self

\* C7: every scope exit adds exactly one to the call count of the aggregate
\* of its (parent, own) key, whatever the interleaving of the threads.
C7_ExitAddsOneCall ==
  build_mode = "profile" =>
    \A k \in CompletedKeys :
      /\ k \in DOMAIN profile_map
      /\ profile_map[k].function_calls = expected[k].function_calls

\* C8: the final aggregates are emitted only by a release that has read
\* zero from the count of active threads.
C8_EmitOnlyAfterObservingZero ==
  \A i \in DOMAIN emissions : emissions[i].observed = 0

\* Two threads have been profiled and the aggregates have been emitted.
C8_Witness ==
  /\ build_mode = "profile"
  /\ threads_created >= 2
  /\ emissions # <<>>
  /\ \E t \in Threads : emissions[Len(emissions)].thread = t /\ ppc[t] = "run"

\* C9: the final aggregates are emitted once, and after the last scope
\* exit of every thread: once they are emitted no scope is open.
C9_ReleaseOnceAfterLastExit ==
  (build_mode = "profile" /\ emissions # <<>>) =>
     /\ Len(emissions) = 1
     /\ \A t \in Threads : scopes[t] = <<>>

\* C33: a thread's Thread object is created on a call made with no scope
\* active on the thread and is destroyed only by the exit of the thread's
\* last active scope, so the thread has one ordinal for all its scopes: the
\* exit of a nested scope leaves it alone.
C33_ThreadHeldWhileScopesActive ==
  [][\A t \in Threads :
       /\ (p_thread[t] # 0 /\ p_thread'[t] = 0) => Len(scopes[t]) = 1
       /\ (p_thread[t] = 0 /\ p_thread'[t] # 0) => scopes[t] = <<>>]_vars

(***************************************************************************)
(* One LinuxEvents object: its construction, the calls on its members and  *)
(* its destruction.                                                        *)
(***************************************************************************)
InitEvents ==
  /\ HistInit /\ SinkIdle /\ ContractIdle /\ CounterIdle /\ JsonIdle /\ ProfileIdle
  /\ build_mode = "profile"
  /\ LinuxEventsConstructed

Answers == [1..MaxMembers -> BOOLEAN]

NextEvents ==
  \/ \E ok_open, ok_disable, ok_close \in BOOLEAN :
       AssignEvent(ok_open, ok_disable, ok_close)
  \/ \E oks \in Answers : EnableEvents(oks)
  \/ \E oks \in Answers : GetSnapshot(oks)
  \/ \E oks_disable, oks_close \in Answers : DestroyEvents(oks_disable, oks_close)

SpecEvents == InitEvents /\ [][NextEvents]_vars

\* C34: no reset, enable, disable, read or close is issued on a descriptor
\* that is not open, no handle is closed twice, and once the LinuxEvents
\* object is destroyed every handle that was opened has been closed once.
C34_HandlesClosedOnceAndNeverUsedAfter ==
  /\ bad_calls = {}
  /\ \A h \in DOMAIN handles : handles[h].closes <= 1
  /\ ev_pc = "destroyed" => \A h \in DOMAIN handles : handles[h].closes = 1

(***************************************************************************)
(* One LinuxEvent from construction to destruction.                        *)
(***************************************************************************)
InitEvent ==
  /\ HistInit /\ SinkIdle /\ ContractIdle /\ CounterIdle /\ EventsIdle /\ JsonIdle /\ ProfileIdle
  /\ build_mode = "profile"

NextEvent ==
  \/ \E ok \in BOOLEAN : open_event(ok)
  \/ \E ok \in BOOLEAN : reset_event(ok)
  \/ \E ok \in BOOLEAN : enable_event(ok)
  \/ \E ok \in BOOLEAN : disable_event(ok)
  \/ \E ok \in BOOLEAN : close_event(ok)
  \/ \E ok \in BOOLEAN, v, e, r \in KernelValues : read_event(ok, v, e, r)

SpecEvent == InitEvent /\ [][NextEvent]_vars

\* C17: a kernel error on open, reset, enable, disable, read or close never
\* ends the process: execution goes on.
C17_KernelErrorNeverTerminates == process = "running"

\* C19: a read that reports time_running = 0 stores 0 as the scaled value
\* and sets the field's counter_unavailable flag.
C19_ZeroRunningGivesZeroAndFlag ==
  (event_read.done /\ event_read.time_running = 0) =>
     /\ event_read.scaled = 0
     /\ "counter_unavailable" \in DOMAIN event_read
     /\ event_read["counter_unavailable"]

(***************************************************************************)
(* One LinuxEventsData under its operators and its derived metrics.        *)
(***************************************************************************)
InitEventsData ==
  /\ HistInit /\ SinkIdle /\ ContractIdle /\ CounterIdle /\ EventsIdle /\ JsonIdle /\ ProfileIdle
  /\ build_mode = "profile"

NextEventsData ==
  \/ \E rhs \in Snapshots : DataApply("+=", rhs)
  \/ \E rhs \in Snapshots : DataApply("-=", rhs)
  \/ write_data

SpecEventsData == InitEventsData /\ [][NextEventsData]_vars

\* A double that is zero.
IsZero(x) == x.kind = "finite" /\ x.num = 0

\* C18: a subtraction in which a counter of the right-hand side exceeds
\* that counter of the left-hand side gives a defined error result for it,
\* not the difference wrapped around.
C18_SubtractionNeverWraps ==
  last_op.op = "-=" =>
    \A f \in Fields :
      last_op.rhs[f] > last_op.lhs[f] =>
        data[f] # Wrap(last_op.lhs[f] - last_op.rhs[f])

\* C20: with a zero divisor a derived metric is its sentinel: 0 for the
\* idle, page fault, stall, cache miss and branch miss figures, NaN for the
\* cycles per instruction.
C20_ZeroDivisorGivesSentinel ==
  metrics.computed =>
    /\ data["sw_cpu_clock"] = 0 =>
         /\ IsZero(metrics.task_idle_pct)
         /\ IsZero(metrics.page_fault_major_per_sec)
    /\ data["hw_cpu_cycles"] = 0 =>
         /\ IsZero(metrics.issue_stall_pct)
         /\ IsZero(metrics.retire_stall_pct)
    /\ data["hw_cache_references"] = 0 => IsZero(metrics.cache_miss_pct)
    /\ data["hw_branch_instructions"] = 0 => IsZero(metrics.branch_miss_pct)
    /\ data["hw_instructions"] = 0 => metrics.cycles_per_instr.kind = "nan"

====
